---------------------------- MODULE Spec2Model ----------------------------
(***************************************************************************)
(* A model of the discovery-and-change-detection core of la-agenda-alerts: *)
(* the hardened fetcher (cache, per-domain rate limit, retry/backoff), the *)
(* link scorer and the bounded-depth discovery engine of                   *)
(* src/deep_discovery.py.                                                  *)
(*                                                                         *)
(* Text is modelled as a sequence of one-character strings, so that the    *)
(* substring tests of the scorer are computed, not assumed.                *)
(***************************************************************************)
EXTENDS Integers, Sequences, FiniteSets, TLC

(***************************************************************************)
(* Python str operations used by the scorer.                               *)
(***************************************************************************)
UpperToLower ==
    ("A" :> "a") @@ ("B" :> "b") @@ ("C" :> "c") @@ ("D" :> "d") @@ ("E" :> "e") @@ ("F" :> "f")
    @@ ("G" :> "g") @@ ("H" :> "h") @@ ("I" :> "i") @@ ("J" :> "j") @@ ("K" :> "k") @@ ("L" :> "l")
    @@ ("M" :> "m") @@ ("N" :> "n") @@ ("O" :> "o") @@ ("P" :> "p") @@ ("Q" :> "q") @@ ("R" :> "r")
    @@ ("S" :> "s") @@ ("T" :> "t") @@ ("U" :> "u") @@ ("V" :> "v") @@ ("W" :> "w") @@ ("X" :> "x")
    @@ ("Y" :> "y") @@ ("Z" :> "z")

\* str.lower(), character by character
lower(s) ==
    [i \in 1..Len(s) |-> IF s[i] \in DOMAIN UpperToLower THEN UpperToLower[s[i]] ELSE s[i]]

\* Python `p in s` for strings
Contains(s, p) ==
    \E i \in 1..(Len(s) - Len(p) + 1) : SubSeq(s, i, i + Len(p) - 1) = p

\* str.endswith
EndsWith(s, p) ==
    Len(s) >= Len(p) /\ SubSeq(s, Len(s) - Len(p) + 1, Len(s)) = p

\* str.startswith
StartsWith(s, p) ==
    Len(s) >= Len(p) /\ SubSeq(s, 1, Len(p)) = p

Digits == {"0", "1", "2", "3", "4", "5", "6", "7", "8", "9"}

Letters == {"a", "b", "c", "d", "e", "f", "g", "h", "i", "j", "k", "l", "m",
            "n", "o", "p", "q", "r", "s", "t", "u", "v", "w", "x", "y", "z"}

\* positions of character c in s
Positions(s, c) == {i \in 1..Len(s) : s[i] = c}

SetMax(S) == CHOOSE x \in S : \A y \in S : y <= x

SetMin(S) == CHOOSE x \in S : \A y \in S : x <= y

\* s.split('/')[-1]
LastSegment(s) ==
    IF Positions(s, "/") = {} THEN s
    ELSE SubSeq(s, SetMax(Positions(s, "/")) + 1, Len(s))

\* s.split('?')[0]
BeforeQuery(s) ==
    IF Positions(s, "?") = {} THEN s
    ELSE SubSeq(s, 1, SetMin(Positions(s, "?")) - 1)

(***************************************************************************)
(* urllib.parse for the URL shapes the model uses: absolute URLs           *)
(* (scheme://netloc/path), network-path references (//netloc/path),        *)
(* absolute-path references (/path) and relative paths without dot         *)
(* segments; no query or fragment.                                         *)
(***************************************************************************)
\* index of the ':' ending a scheme, 0 when s has no scheme
SchemeEnd(s) ==
    LET colons == Positions(s, ":")
    IN  IF colons = {} THEN 0
        ELSE LET c == SetMin(colons)
             IN  IF c > 1 /\ \A i \in 1..(c - 1) : s[i] \in Letters THEN c ELSE 0

\* s with its scheme and ':' removed
AfterScheme(s) == SubSeq(s, SchemeEnd(s) + 1, Len(s))

\* the characters of r up to (not including) its first '/'
UpToSlash(r) ==
    IF Positions(r, "/") = {} THEN r
    ELSE SubSeq(r, 1, SetMin(Positions(r, "/")) - 1)

\* urlparse(url).netloc
netloc(url) ==
    LET r == AfterScheme(url)
    IN  IF StartsWith(r, <<"/", "/">>) THEN UpToSlash(SubSeq(r, 3, Len(r))) ELSE <<>>

\* urlparse(url).path
urlpath(url) ==
    LET r == AfterScheme(url)
    IN  IF StartsWith(r, <<"/", "/">>)
        THEN SubSeq(r, 3 + Len(netloc(url)), Len(r))
        ELSE r

\* urljoin(base, href)
urljoin(base, href) ==
    LET scheme == SubSeq(base, 1, SchemeEnd(base))
        root   == scheme \o <<"/", "/">> \o netloc(base)
        bpath  == urlpath(base)
        bdir   == IF Positions(bpath, "/") = {} THEN <<"/">>
                  ELSE SubSeq(bpath, 1, SetMax(Positions(bpath, "/")))
    IN  IF href = <<>> THEN base
        ELSE IF SchemeEnd(href) > 0 THEN href
        ELSE IF StartsWith(href, <<"/", "/">>) THEN scheme \o href
        ELSE IF StartsWith(href, <<"/">>) THEN root \o href
        ELSE root \o bdir \o href

(***************************************************************************)
(* DeepAgendaDiscovery.SOURCE_PATTERNS: mode, allowlist and blocklist of   *)
(* each configured source (the 'landing', 'scoring' and 'depth_preference' *)
(* entries are read by no code).                                           *)
(***************************************************************************)
SOURCE_PATTERNS ==
    ("metro_board" :> [
        mode |-> "meeting_list",
        allowlist |-> <<
            <<"/", "e", "v", "e", "n", "t", "/">>,   \* '/event/'
            <<"a", "g", "e", "n", "d", "a">>,   \* 'agenda'
            <<"p", "a", "c", "k", "e", "t">>,   \* 'packet'
            <<".", "p", "d", "f">>,   \* '.pdf'
            <<"/", "e", "v", "e", "n", "t", "s", "/">>   \* '/events/'
        >>,
        blocklist |-> <<
            <<"/", "c", "a", "l", "e", "n", "d", "a", "r">>,   \* '/calendar'
            <<"f", "y", "2", "6", "-", "c", "o", "m", "m", "i", "t", "t", "e", "e", "-", "b", "o", "a", "r", "d", "-", "c", "a", "l", "e", "n", "d", "a", "r">>,   \* 'fy26-committee-board-calendar'
            <<"c", "a", "l", "e", "n", "d", "a", "r", ".", "p", "d", "f">>,   \* 'calendar.pdf'
            <<"/", "b", "o", "a", "r", "d", "-", "m", "e", "m", "b", "e", "r", "s">>,   \* '/board-members'
            <<"/", "c", "o", "m", "m", "i", "t", "t", "e", "e", "s">>,   \* '/committees'
            <<"/", "m", "i", "n", "u", "t", "e", "s", "/">>   \* '/minutes/'
        >> ])
    @@ ("county_bos" :> [
        mode |-> "standard",
        allowlist |-> <<
            <<"/", "a", "g", "e", "n", "d", "a">>,   \* '/agenda'
            <<"/", "a", "g", "e", "n", "d", "a", "s">>,   \* '/agendas'
            <<"/", "b", "o", "a", "r", "d", "-", "m", "e", "e", "t", "i", "n", "g">>,   \* '/board-meeting'
            <<"/", "m", "e", "e", "t", "i", "n", "g", "-", "m", "a", "t", "e", "r", "i", "a", "l", "s">>,   \* '/meeting-materials'
            <<"b", "o", "a", "r", "d", " ", "a", "g", "e", "n", "d", "a">>,   \* 'board agenda'
            <<"m", "e", "e", "t", "i", "n", "g", " ", "a", "g", "e", "n", "d", "a">>,   \* 'meeting agenda'
            <<".", "p", "d", "f">>   \* '.pdf'
        >>,
        blocklist |-> <<
            <<"/", "r", "u", "l", "e", "s">>,   \* '/rules'
            <<"/", "d", "i", "s", "t", "r", "i", "c", "t">>,   \* '/district'
            <<"/", "m", "a", "p">>,   \* '/map'
            <<"/", "a", "b", "o", "u", "t">>,   \* '/about'
            <<"/", "c", "o", "n", "t", "a", "c", "t">>,   \* '/contact'
            <<"r", "u", "l", "e", "s", "-", "o", "f", "-", "t", "h", "e", "-", "b", "o", "a", "r", "d">>,   \* 'rules-of-the-board'
            <<"d", "i", "s", "t", "r", "i", "c", "t", "-", "m", "a", "p">>   \* 'district-map'
        >> ])
    @@ ("city_council" :> [
        mode |-> "api_first",
        allowlist |-> <<
            <<"/", "a", "g", "e", "n", "d", "a">>,   \* '/agenda'
            <<"/", "a", "g", "e", "n", "d", "a", "s">>,   \* '/agendas'
            <<"/", "c", "o", "u", "n", "c", "i", "l", "-", "a", "g", "e", "n", "d", "a">>,   \* '/council-agenda'
            <<"/", "m", "e", "e", "t", "i", "n", "g", "-", "a", "g", "e", "n", "d", "a">>,   \* '/meeting-agenda'
            <<"/", "c", "o", "u", "n", "c", "i", "l", "-", "f", "i", "l", "e">>,   \* '/council-file'
            <<"/", "c", "f", "-">>,   \* '/cf-'
            <<"a", "g", "e", "n", "d", "a", ".", "p", "d", "f">>,   \* 'agenda.pdf'
            <<"c", "o", "u", "n", "c", "i", "l", "-", "a", "g", "e", "n", "d", "a">>   \* 'council-agenda'
        >>,
        blocklist |-> <<
            <<"/", "s", "e", "a", "r", "c", "h">>,   \* '/search'
            <<"/", "c", "a", "t", "e", "g", "o", "r", "y">>,   \* '/category'
            <<"/", "t", "a", "g">>,   \* '/tag'
            <<"/", "a", "u", "t", "h", "o", "r">>,   \* '/author'
            <<"/", "p", "a", "g", "e", "/">>,   \* '/page/'
            <<"/", "s", "u", "b", "s", "c", "r", "i", "b", "e">>   \* '/subscribe'
        >> ])
    @@ ("lahd_commissions" :> [
        mode |-> "html_agenda_list",
        allowlist |-> <<
            <<".", "p", "d", "f">>,   \* '.pdf'
            <<"a", "g", "e", "n", "d", "a">>,   \* 'agenda'
            <<"c", "o", "m", "m", "i", "s", "s", "i", "o", "n">>,   \* 'commission'
            <<"m", "e", "e", "t", "i", "n", "g">>,   \* 'meeting'
            <<"/", "w", "p", "-", "c", "o", "n", "t", "e", "n", "t", "/", "u", "p", "l", "o", "a", "d", "s", "/">>,   \* '/wp-content/uploads/'
            <<"r", "a", "c">>,   \* 'rac'
            <<"c", "s", "a", "c">>,   \* 'csac'
            <<"h", "h", "s">>   \* 'hhs'
        >>,
        blocklist |-> <<
            <<"/", "n", "e", "w", "s">>,   \* '/news'
            <<"/", "a", "b", "o", "u", "t">>,   \* '/about'
            <<"/", "c", "o", "n", "t", "a", "c", "t">>,   \* '/contact'
            <<"c", "a", "l", "e", "n", "d", "a", "r">>   \* 'calendar'
        >> ])
    @@ ("lahd_rac" :> [
        mode |-> "pdf_focused",
        allowlist |-> <<
            <<"r", "a", "c">>,   \* 'rac'
            <<"a", "g", "e", "n", "d", "a">>,   \* 'agenda'
            <<".", "p", "d", "f">>,   \* '.pdf'
            <<"/", "w", "p", "-", "c", "o", "n", "t", "e", "n", "t", "/", "u", "p", "l", "o", "a", "d", "s", "/">>,   \* '/wp-content/uploads/'
            <<"r", "e", "n", "t", " ", "a", "d", "j", "u", "s", "t", "m", "e", "n", "t">>,   \* 'rent adjustment'
            <<"c", "o", "m", "m", "i", "s", "s", "i", "o", "n">>   \* 'commission'
        >>,
        blocklist |-> <<
            <<"/", "n", "e", "w", "s">>,   \* '/news'
            <<"/", "a", "b", "o", "u", "t">>,   \* '/about'
            <<"/", "c", "o", "n", "t", "a", "c", "t">>,   \* '/contact'
            <<"c", "a", "l", "e", "n", "d", "a", "r">>,   \* 'calendar'
            <<"m", "i", "n", "u", "t", "e", "s">>   \* 'minutes'
        >> ])

\* SOURCE_PATTERNS.get(source_id, {})
NoPatterns == [mode |-> "standard", allowlist |-> <<>>, blocklist |-> <<>>]

source_config(source) ==
    IF source \in DOMAIN SOURCE_PATTERNS THEN SOURCE_PATTERNS[source] ELSE NoPatterns

\* the keyword lists of score_link_v2
KwAgenda == <<"a", "g", "e", "n", "d", "a">>

KwPdf == <<".", "p", "d", "f">>

KwAgendaPacket == <<"a", "g", "e", "n", "d", "a", " ", "p", "a", "c", "k", "e", "t">>

KwPacket == { <<"p", "a", "c", "k", "e", "t">>,
              <<"m", "a", "t", "e", "r", "i", "a", "l", "s">>,
              <<"m", "e", "e", "t", "i", "n", "g", " ", "m", "a", "t", "e", "r", "i", "a", "l", "s">> }

KwMeeting == { <<"m", "e", "e", "t", "i", "n", "g">>,
               <<"b", "o", "a", "r", "d">>,
               <<"c", "o", "m", "m", "i", "t", "t", "e", "e">>,
               <<"c", "o", "u", "n", "c", "i", "l">> }

KwMonths == { <<"j", "a", "n">>, <<"f", "e", "b">>, <<"m", "a", "r">>, <<"a", "p", "r">>,
              <<"m", "a", "y">>, <<"j", "u", "n">>, <<"j", "u", "l">>, <<"a", "u", "g">>,
              <<"s", "e", "p">>, <<"o", "c", "t">>, <<"n", "o", "v">>, <<"d", "e", "c">> }

KwCalendar == <<"c", "a", "l", "e", "n", "d", "a", "r">>

KwNavigation == { <<"/", "s", "e", "a", "r", "c", "h">>,
                  <<"/", "c", "o", "n", "t", "a", "c", "t">>,
                  <<"/", "a", "b", "o", "u", "t">>,
                  <<"/", "l", "o", "g", "i", "n">> }

\* re.search(r'\d{4}', s)
HasFourDigits(s) ==
    \E i \in 1..(Len(s) - 3) : \A k \in 0..3 : s[i + k] \in Digits

\* re.search(r'\d{1,2}/\d{1,2}', s)
HasSlashDate(s) ==
    \E i \in 2..(Len(s) - 1) : s[i] = "/" /\ s[i - 1] \in Digits /\ s[i + 1] \in Digits

\* the date_patterns loop of score_link_v2: any of the three patterns matches
HasDatePattern(s) ==
    \/ HasFourDigits(s)
    \/ \E m \in KwMonths : Contains(lower(s), m)
    \/ HasSlashDate(s)

(***************************************************************************)
(* DeepAgendaDiscovery.score_link_v2: the additive link score.             *)
(***************************************************************************)
score_link_v2(href, anchor_text, base_url, source, at_depth) ==
    LET href_lower    == lower(href)
        text_lower    == lower(anchor_text)
        combined      == href_lower \o <<" ">> \o text_lower
        href_filename == BeforeQuery(LastSegment(href_lower))
        pdf_href        == EndsWith(href_lower, KwPdf)
        patterns      == source_config(source)
        allowlist     == patterns.allowlist
        blocklist     == patterns.blocklist
        \* source-specific allowlist boost (first match only)
        allow   == IF \E i \in DOMAIN allowlist :
                        Contains(href_lower, allowlist[i]) \/ Contains(text_lower, allowlist[i])
                   THEN 30 ELSE 0
        \* source-specific blocklist penalty (first match only)
        block   == IF \E i \in DOMAIN blocklist : Contains(href_lower, blocklist[i])
                   THEN -50 ELSE 0
        \* +40 if href contains "agenda" and ends with .pdf, elif +25
        agenda  == IF Contains(href_lower, KwAgenda) /\ pdf_href THEN 40
                   ELSE IF Contains(combined, KwAgenda) THEN 25 ELSE 0
        apacket == IF Contains(text_lower, KwAgendaPacket) THEN 20 ELSE 0
        packet  == IF \E kw \in KwPacket : Contains(combined, kw) THEN 15 ELSE 0
        pdf     == IF pdf_href THEN 25 ELSE 0
        meeting == IF \E kw \in KwMeeting : Contains(combined, kw) THEN 10 ELSE 0
        date    == IF HasDatePattern(combined) THEN 12 ELSE 0
        \* +8 for same domain
        base_domain == netloc(base_url)
        link_domain == netloc(urljoin(base_url, href))
        domain  == IF base_domain = link_domain \/ link_domain = <<>> THEN 8 ELSE 0
        \* -40 if href filename contains "calendar"
        cal     == IF Contains(href_filename, KwCalendar) THEN -40 ELSE 0
        nav     == IF \E kw \in KwNavigation : Contains(href_lower, kw) THEN -20 ELSE 0
    IN  allow + block + agenda + apacket + packet + pdf + meeting + date + domain + cal + nav

(***************************************************************************)
(* The modelled web: a handful of URLs on two domains.  A URL is named by  *)
(* a short id in the state; UrlText gives its characters.                  *)
(***************************************************************************)
UrlText ==
    ("A" :> <<"h", "t", "t", "p", "s", ":", "/", "/", "x", ".", "g", "o", "v", "/", "a">>)
    @@ ("B" :> <<"h", "t", "t", "p", "s", ":", "/", "/", "x", ".", "g", "o", "v", "/", "b">>)
    @@ ("C" :> <<"h", "t", "t", "p", "s", ":", "/", "/", "x", ".", "g", "o", "v", "/", "c">>)
    @@ ("P" :> <<"h", "t", "t", "p", "s", ":", "/", "/", "x", ".", "g", "o", "v", "/", "d", "o", "c", "s", "/",
                 "2", "0", "2", "4", "-", "a", "g", "e", "n", "d", "a", "-", "p", "a", "c", "k", "e", "t",
                 ".", "p", "d", "f">>)
    @@ ("E" :> <<"h", "t", "t", "p", "s", ":", "/", "/", "y", ".", "o", "r", "g", "/", "a", "b", "o", "u", "t">>)

Urls == DOMAIN UrlText

\* the id of the URL with the given characters ("elsewhere": not one of them)
UrlId(text) ==
    IF \E u \in Urls : UrlText[u] = text
    THEN CHOOSE u \in Urls : UrlText[u] = text
    ELSE "elsewhere"

\* urlparse(url).netloc of every modelled URL, computed once
DomainOf == [u \in Urls |-> netloc(UrlText[u])]

\* Optional values: None is the empty sequence, a value v is <<v>>
None == <<>>

Some(v) == <<v>>

(***************************************************************************)
(* What a server can answer to one request (urllib's view): a 2xx response *)
(* with a document, an HTTPError with a status code, or another exception  *)
(* (timeout, connection reset, DNS failure).                               *)
(***************************************************************************)
HttpErrorCodes == {403, 404, 410, 429, 503}

OkResponse == [kind |-> "ok", code |-> 200]

HttpError(c) == [kind |-> "http_error", code |-> c]

NetworkException == [kind |-> "exception", code |-> 0]

Responses == {OkResponse, NetworkException} \cup {HttpError(c) : c \in HttpErrorCodes}

\* a response after which fetch tries again
IsTransient(r) ==
    \/ r.kind = "exception"
    \/ r.kind = "http_error" /\ (r.code = 429 \/ r.code >= 500)

\* documents a server can send: a content type header and the bytes; the
\* bytes are described by what the parser and classifier make of them
HtmlDoc(doc_type, long, links) ==
    [content_type |-> "text/html", size |-> 1, doc_type |-> doc_type, long |-> long,
     links |-> links, endpoints |-> FALSE]

PdfDoc(doc_type, long) ==
    [content_type |-> "application/pdf", size |-> 1, doc_type |-> doc_type, long |-> long,
     links |-> <<>>, endpoints |-> FALSE]

\* a 200 response with a zero-length body
EmptyDoc ==
    [content_type |-> "text/html", size |-> 0, doc_type |-> "unknown", long |-> FALSE,
     links |-> <<>>, endpoints |-> FALSE]

\* a document in which scan_for_api_endpoints finds endpoints
WithEndpoints(doc) == [doc EXCEPT !.endpoints = TRUE]

\* hashlib.sha256(content).hexdigest(): a digest that identifies the bytes
sha256(content) == [digest_of |-> content]

(***************************************************************************)
(* State.                                                                  *)
(***************************************************************************)
VARIABLES
    now,           \* time.time() / datetime.now(), in seconds
    cache,         \* cache_dir: url -> cache entry (the files on disk)
    last_fetch,    \* ProductionFetcher.last_fetch: domain -> time
    bypass_cache,  \* ProductionFetcher.bypass_cache
    site,          \* what each URL serves on a 200 answer (None: not yet known)
    calls,         \* number of fetch calls made so far
    faults,        \* number of failed answers (HTTP errors, exceptions) so far
    last_call,     \* observation of the most recent fetch call
    first_reqs     \* domain -> start times of the first network request of the
                   \* last two calls that went to the network for that domain

\* fetcher.py: the cache directory of its ProductionFetcher and the sweeps
VARIABLES
    cache_files,   \* cache_dir: <<url, suffix>> -> the file (mtime and data)
    sweeps,        \* number of clean_old_cache calls made so far
    last_sweep     \* observation of the most recent clean_old_cache call

store_vars == <<cache_files, sweeps, last_sweep>>

\* threads that call fetch on one shared ProductionFetcher
VARIABLES
    thread_pc,     \* thread -> where it is in fetch
    thread_now,    \* thread -> the local `now` of _rate_limit
    thread_wake,   \* thread -> the time its time.sleep ends
    thread_reqs    \* thread -> the times of the requests it has issued

thread_vars == <<thread_pc, thread_now, thread_wake, thread_reqs>>

fetcher_vars ==
    <<now, cache, last_fetch, bypass_cache, site, calls, faults, last_call, first_reqs,
      store_vars, thread_vars>>

\* ProductionFetcher.min_delay
min_delay == 2

\* the freshness window of fetch: _is_cache_fresh(cached, hours=1)
fresh_hours == 1

\* range(3): attempts of one fetch call
max_attempts == 3

\* the cap of _exponential_backoff
backoff_cap == 60

\* random.uniform(0, 1) on the model's whole-second clock
Jitters == {0, 1}

RECURSIVE Pow2(_)
Pow2(n) == IF n = 0 THEN 1 ELSE 2 * Pow2(n - 1)

Min2(a, b) == IF a <= b THEN a ELSE b

\* a faulty variant of _exponential_backoff: the base does not grow
constant_backoff(attempt, jitter) == 1 + jitter

\* ProductionFetcher._exponential_backoff, with the random jitter as an input
_exponential_backoff(attempt, jitter) == Min2(Pow2(attempt), backoff_cap) + jitter

\* a faulty variant of _is_cache_fresh: an entry exactly one window old
\* still counts as fresh
fresh_inclusive(cached, hours, t) == t - cached.cached_at <= hours * 3600

\* ProductionFetcher._is_cache_fresh at time t
_is_cache_fresh(cached, hours, t) == t - cached.cached_at < hours * 3600

\* ProductionFetcher._get_cached
_get_cached(url) ==
    IF bypass_cache THEN None
    ELSE IF url \in DOMAIN cache THEN Some(cache[url]) ELSE None

\* a faulty variant of _cache_content: the entry is written on a bypass
\* fetcher too
cache_despite_bypass(url, content, metadata, t) ==
    [u \in DOMAIN cache \cup {url} |->
        IF u = url
        THEN [metadata |-> metadata, sha256 |-> metadata.sha256,
              content |-> content, cached_at |-> t]
        ELSE cache[u]]

\* ProductionFetcher._cache_content at time t: the cache after the call
_cache_content(url, content, metadata, t) ==
    IF bypass_cache THEN cache
    ELSE [u \in DOMAIN cache \cup {url} |->
            IF u = url
            THEN [metadata |-> metadata, sha256 |-> metadata.sha256,
                  content |-> content, cached_at |-> t]
            ELSE cache[u]]

\* ProductionFetcher._rate_limit called at time t: how long it sleeps and the
\* last_fetch map it leaves
_rate_limit(domain, t) ==
    LET elapsed == t - last_fetch[domain]
        sleep   == IF domain \in DOMAIN last_fetch /\ elapsed < min_delay
                   THEN min_delay - elapsed ELSE 0
    IN  [sleep      |-> sleep,
         last_fetch |-> [d \in DOMAIN last_fetch \cup {domain} |->
                            IF d = domain THEN t ELSE last_fetch[d]]]

\* f'HTTP {e.code}'
HttpErrorText ==
    (403 :> "HTTP 403") @@ (404 :> "HTTP 404") @@ (410 :> "HTTP 410")
    @@ (429 :> "HTTP 429") @@ (503 :> "HTTP 503")

\* str(e) of a network exception
ExceptionText == "URLError"

\* `e.code in (404, 410)`: permanent, fail at once
is_permanent(code) == code \in {404, 410}

\* a faulty variant of is_retried: every HTTP error is tried again
retry_any_error(code) == code >= 400

\* `e.code == 429` or `e.code >= 500`: back off and try again
is_retried(code) == code = 429 \/ code >= 500

\* what the server answers to the i-th request of a call: the script's last
\* answer repeats
Answer(env, i) ==
    IF i <= Len(env.responses) THEN env.responses[i] ELSE env.responses[Len(env.responses)]

\* the jitter of the i-th backoff sleep of a call
JitterAt(env, i) ==
    IF i <= Len(env.jitters) THEN env.jitters[i] ELSE 0

(***************************************************************************)
(* ProductionFetcher.fetch, the retry loop `for attempt in range(3)`.      *)
(* f is the call's frame: the clock t, the metadata dict, the content to   *)
(* return, the cache, and a log of the requests issued and sleeps taken.   *)
(* A request is issued at f.t and answered at once.                        *)
(***************************************************************************)
RECURSIVE fetch_attempts(_, _, _, _)
fetch_attempts(attempt, url, f, env) ==
    IF attempt >= max_attempts
    THEN [f EXCEPT !.content = None]
    ELSE
        LET r   == Answer(env, attempt + 1)
            g   == [f EXCEPT !.requests = Append(@, f.t)]
            nap == _exponential_backoff(attempt, JitterAt(env, attempt + 1))
            backoff(h) == [h EXCEPT !.t = @ + nap, !.sleeps = Append(@, nap)]
        IN  CASE r.kind = "ok" ->
                    \* metadata.update(response_meta); sha256; _cache_content
                    LET m == [g.metadata EXCEPT
                                !.status_code = Some(r.code),
                                !.content_type = Some(env.doc.content_type),
                                !.sha256 = Some(sha256(env.doc))]
                    IN  [g EXCEPT !.metadata = m,
                                  !.content = Some(env.doc),
                                  !.cache = _cache_content(url, env.doc, m, g.t)]
              [] r.kind = "http_error" ->
                    LET m == [g.metadata EXCEPT !.status_code = Some(r.code)]
                    IN  IF is_permanent(r.code)
                        THEN [g EXCEPT !.metadata = [m EXCEPT !.error = Some(HttpErrorText[r.code])],
                                       !.content = None]
                        ELSE IF is_retried(r.code)
                        THEN fetch_attempts(attempt + 1, url, backoff([g EXCEPT !.metadata = m]), env)
                        ELSE [g EXCEPT !.metadata = [m EXCEPT !.error = Some(HttpErrorText[r.code])],
                                       !.content = None]
              [] r.kind = "exception" ->
                    fetch_attempts(attempt + 1, url,
                                   backoff([g EXCEPT !.metadata.error = Some(ExceptionText)]), env)

(***************************************************************************)
(* ProductionFetcher.fetch(url, source_id) called at time t.  The result   *)
(* is the frame at return: content, metadata, the clock, the cache and     *)
(* last_fetch it leaves, and the log.                                      *)
(***************************************************************************)
fetch(url, t, env) ==
    LET domain   == DomainOf[url]
        metadata == [url |-> url, fetched_at |-> t, status_code |-> None,
                     content_type |-> None, sha256 |-> None, cached |-> FALSE,
                     error |-> None, cache_bypassed |-> bypass_cache]
        cached   == _get_cached(url)
        frame    == [t |-> t, content |-> None, metadata |-> metadata, cache |-> cache,
                     last_fetch |-> last_fetch, requests |-> <<>>, sleeps |-> <<>>,
                     rate_sleep |-> 0]
    IN  IF ~bypass_cache /\ cached # None /\ _is_cache_fresh(cached[1], fresh_hours, t)
        THEN [frame EXCEPT !.metadata = [metadata EXCEPT !.cached = TRUE,
                                                         !.sha256 = cached[1].sha256],
                           !.content = Some(cached[1].content)]
        ELSE LET rl == _rate_limit(domain, t)
             IN  fetch_attempts(0, url,
                                [frame EXCEPT !.t = t + rl.sleep,
                                              !.last_fetch = rl.last_fetch,
                                              !.rate_sleep = rl.sleep],
                                env)

(***************************************************************************)
(* The environment of one fetch call: the server's answers, the jitter     *)
(* drawn for each backoff, and the document a 200 answer carries.          *)
(***************************************************************************)
TransientResponses == {r \in Responses : IsTransient(r)}

\* answer scripts: every answer before the last is transient (fetch asks
\* again only after those), and the last differs from the one before it
ResponseScripts ==
    {<<r>> : r \in Responses}
    \cup {s \in TransientResponses \X Responses : s[2] # s[1]}
    \cup {s \in TransientResponses \X TransientResponses \X Responses : s[3] # s[2]}

\* the number of backoff sleeps a call takes under a script
NumSleeps(script) ==
    Cardinality({i \in 1..max_attempts :
                    \A k \in 1..i : IsTransient(Answer([responses |-> script], k))})

\* whether a 200 answer arrives within the attempts of one call
ScriptSucceeds(script) ==
    \E i \in 1..Min2(Len(script), max_attempts) : script[i].kind = "ok"

\* the number of failed answers a call consumes under a script
NumFaults(script) ==
    Cardinality({i \in 1..max_attempts :
                    /\ Answer([responses |-> script], i).kind # "ok"
                    /\ \A k \in 1..(i - 1) : IsTransient(Answer([responses |-> script], k))})

\* every script with the sleeps and failed answers it costs, computed once
ScriptTable ==
    {[responses |-> s, nsleeps |-> NumSleeps(s), nfaults |-> NumFaults(s)] : s \in ResponseScripts}

\* jitter draws for n sleeps: all low or all high
JitterScripts(n) == {[i \in 1..n |-> j] : j \in Jitters}

\* the record a fetch call leaves for observation
CallRecord(url, t, env, f) ==
    [url      |-> url,
     start    |-> t,
     bypass   |-> bypass_cache,
     entry    |-> IF url \in DOMAIN cache THEN Some(cache[url]) ELSE None,
     answers  |-> [i \in 1..Len(f.requests) |-> Answer(env, i)],
     content  |-> f.content,
     metadata |-> f.metadata,
     requests |-> f.requests,
     sleeps   |-> f.sleeps,
     rate_sleep |-> f.rate_sleep,
     finish   |-> f.t]

\* first_reqs after a call with frame f to `domain`
LogFirstRequest(domain, f) ==
    IF f.requests = <<>> THEN first_reqs
    ELSE [d \in DOMAIN first_reqs \cup {domain} |->
            IF d # domain THEN first_reqs[d]
            ELSE IF d \in DOMAIN first_reqs
                 THEN <<first_reqs[d][Len(first_reqs[d])], f.requests[1]>>
                 ELSE <<f.requests[1]>>]

\* the effect of one fetch call on the fetcher's state
FetcherEffect(url, t, env, f) ==
    /\ now' = f.t
    /\ cache' = f.cache
    /\ last_fetch' = f.last_fetch
    /\ calls' = calls + 1
    /\ faults' = faults + Cardinality({i \in 1..Len(f.requests) : Answer(env, i).kind # "ok"})
    /\ last_call' = CallRecord(url, t, env, f)
    /\ first_reqs' = LogFirstRequest(DomainOf[url], f)
    /\ UNCHANGED <<store_vars, thread_vars>>

(***************************************************************************)
(* fetcher.py: the ProductionFetcher the pipeline uses.  An entry of its   *)
(* cache is two files, <key>.json with the metadata and <key>.bin with the *)
(* content; a file is its modification time and its data.                  *)
(***************************************************************************)
\* seconds in a day (clean_old_cache)
seconds_per_day == 86400

\* cache_dir / f"{cache_key}.json" and cache_dir / f"{cache_key}.bin"
JsonFile(url) == <<url, "json">>

BinFile(url) == <<url, "bin">>

\* open(file, 'w') and write at time t, for every file of `written`
WriteFiles(files, written, t) ==
    [n \in DOMAIN files \cup DOMAIN written |->
        IF n \in DOMAIN written THEN [mtime |-> t, data |-> written[n]] ELSE files[n]]

\* unlink() of the files named
Unlink(files, names) == [n \in DOMAIN files \ names |-> files[n]]

\* fetcher.py: ProductionFetcher._get_cached
fetcher_get_cached(files, url) ==
    IF JsonFile(url) \in DOMAIN files /\ BinFile(url) \in DOMAIN files
    THEN Some([metadata |-> files[JsonFile(url)].data, content |-> files[BinFile(url)].data])
    ELSE None

\* fetcher.py: ProductionFetcher._is_cache_fresh at time t
fetcher_is_cache_fresh(cached, hours, t) ==
    t - cached.metadata.fetched_at < hours * 3600

\* fetcher.py: ProductionFetcher._cache_content at time t
fetcher_cache_content(files, url, content, metadata, t) ==
    WriteFiles(files, (JsonFile(url) :> metadata) @@ (BinFile(url) :> content), t)

\* a faulty variant of clean_old_cache: the content files stay
clean_json_only(files, max_age_days, t) ==
    Unlink(files, {n \in DOMAIN files :
                        n[2] = "json" /\ files[n].mtime < t - max_age_days * seconds_per_day})

\* fetcher.py: ProductionFetcher.clean_old_cache at time t: the files it
\* leaves
clean_old_cache(files, max_age_days, t) ==
    LET cutoff == t - max_age_days * seconds_per_day
        old    == {n \in DOMAIN files : n[2] = "json" /\ files[n].mtime < cutoff}
    IN  Unlink(files, old \cup {BinFile(n[1]) : n \in old})

\* the texts fetcher.py puts in metadata['error']
PageRemoved(code) == [http |-> code, note |-> "Page removed or changed"]

AccessBlocked == [http |-> 403, note |-> "Access blocked"]

PlainHttpError(code) == [http |-> code, note |-> ""]

MaxRetriesExceeded == [http |-> 0, note |-> "Max retries exceeded"]

\* fetcher.py: the retry loop of fetch; the frame holds the files in place
\* of the cache
RECURSIVE fetcher_fetch_attempts(_, _, _, _)
fetcher_fetch_attempts(attempt, url, f, env) ==
    IF attempt >= max_attempts
    THEN [f EXCEPT !.content = None,
                   !.metadata.error = IF @ = None THEN Some(MaxRetriesExceeded) ELSE @]
    ELSE
        LET r   == Answer(env, attempt + 1)
            g   == [f EXCEPT !.requests = Append(@, f.t), !.metadata.retries = attempt]
            nap == _exponential_backoff(attempt, JitterAt(env, attempt + 1))
            backoff(h) == [h EXCEPT !.t = @ + nap, !.sleeps = Append(@, nap)]
            failed(h, text) == [h EXCEPT !.metadata.error = Some(text), !.content = None]
        IN  CASE r.kind = "ok" ->
                    LET m == [g.metadata EXCEPT
                                !.status_code = Some(r.code),
                                !.content_type = Some(env.doc.content_type),
                                !.sha256 = Some(sha256(env.doc))]
                    IN  [g EXCEPT !.metadata = m,
                                  !.content = Some(env.doc),
                                  !.files = fetcher_cache_content(g.files, url, env.doc, m, g.t)]
              [] r.kind = "http_error" ->
                    LET h == [g EXCEPT !.metadata.status_code = Some(r.code)]
                    IN  IF is_permanent(r.code) THEN failed(h, PageRemoved(r.code))
                        ELSE IF r.code = 403 THEN failed(h, AccessBlocked)
                        ELSE IF is_retried(r.code)
                        THEN fetcher_fetch_attempts(attempt + 1, url, backoff(h), env)
                        ELSE failed(h, PlainHttpError(r.code))
              [] r.kind = "exception" ->
                    fetcher_fetch_attempts(attempt + 1, url,
                                           backoff([g EXCEPT !.metadata.error = Some(ExceptionText)]), env)

\* fetcher.py: ProductionFetcher.fetch(url, source_id) called at time t on
\* the cache directory `files`: the frame at return
fetcher_fetch(files, url, t, env) ==
    LET rl       == _rate_limit(DomainOf[url], t)
        metadata == [url |-> url, fetched_at |-> t, status_code |-> None,
                     content_type |-> None, sha256 |-> None, cached |-> FALSE,
                     error |-> None, retries |-> 0]
        cached   == fetcher_get_cached(files, url)
        frame    == [t |-> t + rl.sleep, content |-> None, metadata |-> metadata,
                     files |-> files, last_fetch |-> rl.last_fetch, requests |-> <<>>,
                     sleeps |-> <<>>, rate_sleep |-> rl.sleep]
    IN  IF cached # None /\ fetcher_is_cache_fresh(cached[1], fresh_hours, t + rl.sleep)
        THEN [frame EXCEPT !.metadata = [metadata EXCEPT !.cached = TRUE,
                                                         !.sha256 = cached[1].metadata.sha256],
                           !.content = Some(cached[1].content)]
        ELSE fetcher_fetch_attempts(0, url, frame, env)

(***************************************************************************)
(* Links.  A document's anchors are named by short ids; LinkHref and       *)
(* LinkAnchor give the characters of the href attribute and of the anchor  *)
(* text.                                                                   *)
(***************************************************************************)
LinkHref ==
    ("toA" :> <<"/", "a">>)
    @@ ("toB" :> <<"/", "b">>)
    @@ ("toC" :> <<"h", "t", "t", "p", "s", ":", "/", "/", "x", ".", "g", "o", "v", "/", "c">>)
    @@ ("toP" :> <<"/", "d", "o", "c", "s", "/", "2", "0", "2", "4", "-", "a", "g", "e", "n", "d", "a",
                   "-", "p", "a", "c", "k", "e", "t", ".", "p", "d", "f">>)
    @@ ("toE" :> <<"h", "t", "t", "p", "s", ":", "/", "/", "y", ".", "o", "r", "g", "/", "a", "b", "o", "u", "t">>)
    @@ ("toTop" :> <<"#", "t", "o", "p">>)

LinkAnchor ==
    ("toA" :> <<"H", "o", "m", "e">>)
    @@ ("toB" :> <<"M", "e", "e", "t", "i", "n", "g", "s">>)
    @@ ("toC" :> <<"N", "e", "x", "t">>)
    @@ ("toP" :> <<"A", "g", "e", "n", "d", "a", " ", "P", "a", "c", "k", "e", "t">>)
    @@ ("toE" :> <<"A", "b", "o", "u", "t">>)
    @@ ("toTop" :> <<"T", "o", "p">>)

LinkIds == DOMAIN LinkHref

\* href.startswith('#') or href.startswith('javascript:')
IsSkippedHref(href) ==
    \/ StartsWith(href, <<"#">>)
    \/ StartsWith(href, <<"j", "a", "v", "a", "s", "c", "r", "i", "p", "t", ":">>)

\* anchor_text[:100]
anchor_limit == 100

\* the candidate extract_links_v2 builds for one anchor of a page at base
LinkCandidate(l, base, source, at_depth) ==
    [url         |-> UrlId(urljoin(UrlText[base], LinkHref[l])),
     href        |-> l,
     anchor_text |-> SubSeq(LinkAnchor[l], 1, Min2(Len(LinkAnchor[l]), anchor_limit)),
     score       |-> score_link_v2(LinkHref[l], LinkAnchor[l], UrlText[base], source, at_depth)]

\* every candidate of the modelled links, computed once (the score does not
\* read depth)
CandidateTable ==
    {[link |-> l, base |-> b, source |-> s, candidate |-> LinkCandidate(l, b, s, 0)] :
        l \in {k \in LinkIds : ~IsSkippedHref(LinkHref[k])}, b \in Urls,
        s \in DOMAIN SOURCE_PATTERNS \cup {"other"}}

\* the table's candidate for an anchor
CandidateOf(l, base, source) ==
    (CHOOSE r \in CandidateTable : r.link = l /\ r.base = base /\ r.source = source).candidate

\* a faulty variant of SortByScore: the links stay in document order
document_order(links) == links

\* links.sort(key=score, reverse=True): a stable sort, highest score first
SortByScore(links) ==
    LET n == Len(links)
        before(i, j) == links[i].score > links[j].score
                        \/ (links[i].score = links[j].score /\ i < j)
        rank(i) == 1 + Cardinality({j \in 1..n : before(j, i)})
    IN  [k \in 1..n |-> links[CHOOSE i \in 1..n : rank(i) = k]]

\* the subsequence of s at the positions in idx
SubSeqAt(s, idx) ==
    [k \in 1..Cardinality(idx) |->
        s[CHOOSE i \in idx : Cardinality({j \in idx : j < i}) = k - 1]]

\* the subsequence of s whose elements satisfy Keep
Filter(s, Keep(_)) == SubSeqAt(s, {i \in 1..Len(s) : Keep(s[i])})

\* s[:n]
Take(s, n) == SubSeq(s, 1, Min2(Len(s), n))

\* DeepAgendaDiscovery.extract_links_v2 on the anchors of a document
extract_links_v2(anchors, base_url, source, at_depth) ==
    LET kept == Filter(anchors, LAMBDA l : ~IsSkippedHref(LinkHref[l]))
    IN  SortByScore([i \in 1..Len(kept) |-> CandidateOf(kept[i], base_url, source)])

(***************************************************************************)
(* DeepAgendaDiscovery.discover_agenda_deep: the body of one iteration of  *)
(* `for depth in range(max_depth + 1)` after the fetch, as a function of   *)
(* the result dict so far.  The outcome says how the iteration ends:       *)
(* "return" and "break" leave the loop, "continue" goes to the next depth. *)
(***************************************************************************)
\* a discovery_path step with only the keys every step has
BlankStep(d, url, type) ==
    [depth |-> d, url |-> url, type |-> type, doc_type |-> None, score |-> None,
     rejected |-> None, api_endpoints_found |-> FALSE, mode |-> None,
     meeting_links_found |-> None, top_meeting_links |-> <<>>,
     links_found |-> None, top_links |-> <<>>, selected_next |-> None]

\* the content type header, as characters
ContentTypeText ==
    ("text/html" :> <<"t", "e", "x", "t", "/", "h", "t", "m", "l">>)
    @@ ("application/pdf" :> <<"a", "p", "p", "l", "i", "c", "a", "t", "i", "o", "n", "/", "p", "d", "f">>)

\* current_url.lower().endswith('.pdf') or 'pdf' in metadata.get('content_type', '')
is_pdf(url, metadata) ==
    \/ EndsWith(lower(UrlText[url]), KwPdf)
    \/ Contains(ContentTypeText[metadata.content_type[1]], <<"p", "d", "f">>)

\* `if not content or metadata.get('status_code') != 200`
fetch_failed(content, metadata) ==
    \/ content = None
    \/ content[1].size = 0
    \/ metadata.status_code # Some(200)

\* the score given to a PDF step
pdf_step_score == 100

\* links[:15] collected for reporting, links[:5] shown in a step
candidate_limit == 15

top_limit == 5

\* a link must score above this to be followed
follow_threshold == -20

\* a link must score above this to count as a meeting link
meeting_threshold == 20

\* the text length above which an HTML page classified 'agenda' is accepted
\* is decided by the document's `long` attribute (len(parsed_html.text) > 1000)

\* the PDF branch (lines 562-592)
process_pdf(res, d, url, content, metadata) ==
    LET doc_type == content[1].doc_type
        step     == [BlankStep(d, url, "PDF") EXCEPT !.doc_type = Some(doc_type),
                                                     !.score = Some(pdf_step_score)]
        rejected == [step EXCEPT !.rejected = Some(doc_type)]
        res1     == [res EXCEPT !.discovery_path = Append(@, step),
                                !.all_candidates = Append(@, step)]
    IN  CASE doc_type = "agenda" ->
                [result |-> [res1 EXCEPT !.final_url = Some(url),
                                         !.final_content = content,
                                         !.final_metadata = Some(metadata),
                                         !.final_parsed = Some([doc_type |-> doc_type,
                                                                long |-> content[1].long]),
                                         !.status = "success-agenda"],
                 outcome |-> "return", current_url |-> url]
          [] doc_type = "no-agenda-yet" ->
                [result |-> [res1 EXCEPT !.status = "fail-no-agenda-yet",
                                         !.error = Some([text |-> "Meeting page states no agenda posted yet",
                                                         arg |-> None])],
                 outcome |-> "return", current_url |-> url]
          [] OTHER ->
                \* the step in all_candidates is the same dict: it is marked too
                [result |-> [res EXCEPT !.discovery_path = Append(@, rejected),
                                        !.all_candidates = Append(@, rejected)],
                 outcome |-> "continue", current_url |-> url]

\* a faulty variant of eligible_links: visited pages stay eligible
eligible_ignoring_visited(links, vis) ==
    {i \in 1..Len(links) : links[i].score > follow_threshold}

\* lines 665-668: the positions of the links the loop may pick, the first of
\* which is followed
eligible_links(links, vis) ==
    {i \in 1..Len(links) : links[i].url \notin vis /\ links[i].score > follow_threshold}

\* a faulty variant of may_follow: the depth budget is not looked at
may_follow_at_any_depth(d, maxd, links) == links # <<>>

\* line 662: `if depth < max_depth and links`
may_follow(d, maxd, links) == d < maxd /\ links # <<>>

\* the HTML branch after link extraction (lines 597-681); links is the sorted
\* list extract_links_v2 returned, vis is visited, current URL included
process_links(res, d, url, vis, content, metadata, source, maxd, links) ==
    LET doc          == content[1]
        source_mode  == source_config(source).mode
        api_step     == [BlankStep(d, url, "HTML") EXCEPT !.api_endpoints_found = TRUE]
        path1        == IF source_mode = "api_first" /\ d = 0 /\ doc.endpoints
                        THEN Append(res.discovery_path, api_step)
                        ELSE res.discovery_path
        meeting_links == Take(Filter(links, LAMBDA l : l.score > meeting_threshold), candidate_limit)
        meeting_step == [BlankStep(d, url, "HTML") EXCEPT
                            !.mode = Some("meeting_list"),
                            !.meeting_links_found = Some(Len(meeting_links)),
                            !.top_meeting_links = Take(meeting_links, top_limit)]
        path2        == IF source_mode = "meeting_list" /\ d = 0
                        THEN Append(path1, meeting_step)
                        ELSE path1
        page_type    == doc.doc_type
        step         == [BlankStep(d, url, "HTML") EXCEPT
                            !.doc_type = Some(page_type),
                            !.links_found = Some(Len(links)),
                            !.top_links = Take(links, top_limit)]
        path3        == IF path2 = <<>> \/ path2[Len(path2)].depth # d
                        THEN Append(path2, step)
                        ELSE path2
        res3         == [res EXCEPT !.discovery_path = path3]
        shown        == Take(links, candidate_limit)
        res4         == [res3 EXCEPT !.all_candidates =
                            @ \o [i \in 1..Len(shown) |->
                                    [depth |-> d, url |-> shown[i].url, score |-> shown[i].score,
                                     anchor |-> Take(shown[i].anchor_text, 50)]]]
        eligible     == eligible_links(links, vis)
    IN  IF page_type = "agenda" /\ doc.long
        THEN [result |-> [res3 EXCEPT !.final_url = Some(url),
                                      !.final_content = content,
                                      !.final_metadata = Some(metadata),
                                      !.final_parsed = Some([doc_type |-> page_type, long |-> doc.long]),
                                      !.status = "success-agenda-html"],
              outcome |-> "return", current_url |-> url]
        ELSE IF may_follow(d, maxd, links)
        THEN IF eligible # {}
             THEN LET next_link == links[SetMin(eligible)]
                  IN  [result |-> [res4 EXCEPT
                                     !.discovery_path[Len(path3)].selected_next = Some(next_link.url)],
                       outcome |-> "continue", current_url |-> next_link.url]
             ELSE [result |-> [res4 EXCEPT !.error = Some([text |-> "No unvisited positive-scoring links at depth",
                                                           arg |-> Some(d)]),
                                           !.status = "fail-no-links"],
                   outcome |-> "break", current_url |-> url]
        ELSE [result |-> [res4 EXCEPT !.error = Some([text |-> "Reached max depth without finding agenda",
                                                      arg |-> Some(maxd)]),
                                      !.status = "fail-max-depth"],
              outcome |-> "break", current_url |-> url]

\* the HTML branch (lines 593-681): the links are extracted and sorted once
process_html(res, d, url, vis, content, metadata, source, maxd) ==
    process_links(res, d, url, vis, content, metadata, source, maxd,
                  extract_links_v2(content[1].links, url, source, d))

\* lines 554-681: what the iteration does with the fetch's return value
loop_body(res, d, url, vis, content, metadata, source, maxd) ==
    IF fetch_failed(content, metadata)
    THEN [result |-> [res EXCEPT !.error = Some([text |-> "Failed to fetch at depth",
                                                 arg |-> <<d, metadata.error>>]),
                                 !.status = "fail-fetch"],
          outcome |-> "break", current_url |-> url]
    ELSE IF is_pdf(url, metadata)
    THEN process_pdf(res, d, url, content, metadata)
    ELSE process_html(res, d, url, vis, content, metadata, source, maxd)

(***************************************************************************)
(* State of a discovery run.                                               *)
(***************************************************************************)
VARIABLES
    dpc,          \* "idle": no run yet; "loop": at the head of the for loop;
                  \* "done": discover_agenda_deep has returned `result`
    source_id,    \* the source the session's runs are for
    landing_url,  \* argument of the current run
    max_depth,    \* argument of the current run
    depth,        \* the loop variable
    current_url,  \* local of discover_agenda_deep
    visited,      \* local of discover_agenda_deep
    result,       \* the result dict
    runs,         \* number of runs started
    fetched,      \* the URLs the current run has called fetch for, in order
    returned,     \* the results the earlier runs of the session returned
    scored        \* a pair of links given to score_link_v2, with their scores

(***************************************************************************)
(* State of the document side: the classifier's input and output.          *)
(***************************************************************************)
VARIABLES
    classified_text,  \* the text given to DocumentClassifier.classify
    classified_as     \* what classify returned for it (None: not called yet)

classifier_vars == <<classified_text, classified_as>>

(***************************************************************************)
(* Two texts that are made into ParsedDocs: a text and a variant of it     *)
(* that differs in line order, letter case and amounts of white space.     *)
(***************************************************************************)
VARIABLES
    original_text,  \* a document text
    variant_text,   \* the text after `edits` changes
    edits,          \* number of changes made to the variant
    parsed          \* the ParsedDocs of both texts (None: not made yet)

fingerprint_vars == <<original_text, variant_text, edits, parsed>>

(***************************************************************************)
(* The pipeline's change detection.                                        *)
(***************************************************************************)
VARIABLES
    fingerprint_store,  \* source id -> stored FingerprintRecord or None
    prev_compare,       \* the compare call before the last one
    last_compare,       \* the last compare call and its outcome
    results             \* the pipeline's counters

engine_vars == <<fingerprint_store, prev_compare, last_compare, results>>

(***************************************************************************)
(* The change events of diff.py.                                           *)
(***************************************************************************)
VARIABLES
    event_log,         \* the ChangeEvents made so far
    event_clock        \* datetime.now() of the next event

event_vars == <<event_log, event_clock>>

VARIABLES
    current_items,     \* current_items.json (None: missing)
    last_items,        \* last_items.json (None: missing)
    sent_events_file,  \* sent_events.json
    changes_file,      \* changes.json: the output of the last diff() (None: missing)
    emitted_before,    \* the event ids in the outputs of the runs before that one
    recorded_before,   \* the event ids sent_events.json held before the last run
    diff_inputs,       \* the item files each run of diff() has read, in run order
    diffs              \* runs of diff() so far

worker_vars == <<current_items, last_items, sent_events_file, changes_file,
                 emitted_before, recorded_before, diff_inputs, diffs>>

document_vars == <<classifier_vars, fingerprint_vars, engine_vars, event_vars, worker_vars>>

discovery_vars ==
    <<dpc, source_id, landing_url, max_depth, depth, current_url, visited, result, runs, fetched,
      returned>>

vars == <<fetcher_vars, discovery_vars, scored, document_vars>>

\* the variables each part leaves alone
beside_classifier == <<fetcher_vars, discovery_vars, scored, fingerprint_vars, engine_vars, event_vars, worker_vars>>

beside_fingerprint == <<fetcher_vars, discovery_vars, scored, classifier_vars, engine_vars, event_vars, worker_vars>>

beside_engine == <<fetcher_vars, discovery_vars, scored, classifier_vars, fingerprint_vars, event_vars, worker_vars>>

beside_diff == <<fetcher_vars, discovery_vars, scored, classifier_vars, fingerprint_vars, engine_vars>>

\* fetch calls per fetcher session
MaxCalls == 3

\* the largest max_depth a run is started with
MaxDepth == 2

\* discovery runs per session
MaxRuns == 2

\* seconds between the return of one call and the start of the next
Delays == {0, 3599, 3600}

\* seconds between the return of one run and the start of the next
RunDelays == {0, 3600}

FetchUrls == {"A", "B"}

Landings == {"A", "P"}

\* one source of each mode that discover_agenda_deep distinguishes, and an
\* id that has no entry in SOURCE_PATTERNS
DiscoverySources == {"metro_board", "city_council", "other"}

\* the answers a fetch of a discovery run can meet
DiscoveryScripts ==
    {s \in ScriptTable :
        s.responses \in {<<OkResponse>>, <<HttpError(404)>>, <<HttpError(503), OkResponse>>,
                         <<NetworkException>>}}

\* the documents the URLs serve in a fetcher session
FetchSite ==
    [u \in Urls |->
        CASE u = "A" -> Some(HtmlDoc("index", FALSE, <<>>))
          [] u = "B" -> Some(EmptyDoc)
          [] u = "P" -> Some(PdfDoc("agenda", TRUE))
          [] OTHER   -> Some(HtmlDoc("unknown", FALSE, <<>>))]

\* anchors of a page: none, any one, or two different ones (the fragment
\* link only in first place before the link to B)
LinkLists ==
    {<<>>} \cup {<<l>> : l \in LinkIds}
    \cup {s \in (LinkIds \ {"toTop", "toC"}) \X (LinkIds \ {"toTop", "toC"}) : s[1] # s[2]}
    \cup {<<"toTop", "toB">>}

\* the documents each URL may turn out to serve in a discovery session
Pages ==
    [u \in Urls |->
        CASE u = "A" ->
                {HtmlDoc("index", FALSE, ls) : ls \in LinkLists}
                \cup {HtmlDoc("agenda", TRUE, <<>>), HtmlDoc("agenda", FALSE, <<"toB">>),
                      WithEndpoints(HtmlDoc("index", FALSE, <<"toB">>)), EmptyDoc}
          [] u = "B" ->
                {HtmlDoc("index", FALSE, ls) :
                    ls \in {<<>>, <<"toA">>, <<"toB">>, <<"toC">>, <<"toP">>, <<"toA", "toC">>}}
                \cup {PdfDoc("calendar", FALSE), HtmlDoc("agenda", TRUE, <<>>)}
          [] u = "C" ->
                {HtmlDoc("index", FALSE, ls) : ls \in {<<>>, <<"toP">>, <<"toA">>}}
                \cup {PdfDoc("agenda", TRUE)}
          [] u = "P" ->
                {PdfDoc("agenda", TRUE), PdfDoc("no-agenda-yet", FALSE), PdfDoc("calendar", FALSE),
                 HtmlDoc("minutes", TRUE, <<>>)}
          [] OTHER -> {HtmlDoc("index", FALSE, <<>>)}]

NoCall ==
    [url |-> "none", start |-> 0, bypass |-> FALSE, entry |-> None, answers |-> <<>>,
     content |-> None, metadata |-> None, requests |-> <<>>, sleeps |-> <<>>,
     rate_sleep |-> 0, finish |-> 0]

EmptyMap == [x \in {} |-> 0]

\* the result dict discover_agenda_deep starts from (lines 521-532)
NewResult(landing) ==
    [landing_url |-> landing, depth_reached |-> 0, discovery_path |-> <<>>,
     final_url |-> None, final_content |-> None, final_metadata |-> None,
     final_parsed |-> None, all_candidates |-> <<>>, error |-> None, status |-> "searching"]

\* the threads that share the fetcher
Threads == {"t1", "t2"}

\* the cache directory of fetcher.py is empty and was never swept
StoreIdle ==
    /\ cache_files = EmptyMap
    /\ sweeps = 0
    /\ last_sweep = None

\* no thread has called fetch
ThreadsIdle ==
    /\ thread_pc = [w \in Threads |-> "idle"]
    /\ thread_now = [w \in Threads |-> 0]
    /\ thread_wake = [w \in Threads |-> 0]
    /\ thread_reqs = [w \in Threads |-> <<>>]

\* a new ProductionFetcher on an empty cache directory
FetcherInit ==
    /\ now = 0
    /\ cache = EmptyMap
    /\ last_fetch = EmptyMap
    /\ bypass_cache \in BOOLEAN
    /\ calls = 0
    /\ faults = 0
    /\ last_call = NoCall
    /\ first_reqs = EmptyMap
    /\ StoreIdle
    /\ ThreadsIdle

\* no discovery run has been started
DiscoveryIdle ==
    /\ dpc = "idle"
    /\ landing_url = "A"
    /\ max_depth = 0
    /\ depth = 0
    /\ current_url = "A"
    /\ visited = {}
    /\ result = NewResult("A")
    /\ runs = 0
    /\ fetched = <<>>
    /\ returned = <<>>

\* no document has been classified
ClassifierIdle ==
    /\ classified_text = <<>>
    /\ classified_as = None

\* no ParsedDoc has been made
FingerprintIdle ==
    /\ original_text = <<>>
    /\ variant_text = <<>>
    /\ edits = 0
    /\ parsed = None

\* no call of the diff engine
NoCompare ==
    [source |-> "none", text |-> <<>>, fingerprint |-> <<>>, stored |-> <<>>,
     outcome |-> <<>>]

\* no pipeline has been made
EngineIdle ==
    /\ fingerprint_store = <<>>
    /\ prev_compare = NoCompare
    /\ last_compare = NoCompare
    /\ results = <<>>

\* no ChangeEvent has been made
EventsIdle ==
    /\ event_log = <<>>
    /\ event_clock = 0

\* no DiffWorker has run and the state directory is empty
WorkerIdle ==
    /\ current_items = None
    /\ last_items = None
    /\ sent_events_file = [kind |-> "missing", ids |-> {}]
    /\ changes_file = None
    /\ emitted_before = {}
    /\ recorded_before = {}
    /\ diff_inputs = <<>>
    /\ diffs = 0

\* nothing has happened on the document side
DocumentsIdle == ClassifierIdle /\ FingerprintIdle /\ EngineIdle /\ EventsIdle /\ WorkerIdle

(***************************************************************************)
(* Direct use of the fetcher: a bounded session of fetch calls on one      *)
(* cache directory, with the time that passes between calls chosen by the  *)
(* caller.  Answers fail during at most one call of a session.             *)
(***************************************************************************)
FetchInit ==
    /\ FetcherInit
    /\ site = FetchSite
    /\ source_id = "other"
    /\ DiscoveryIdle
    /\ DocumentsIdle
    /\ scored = None

\* ProductionFetcher.__init__ on the same cache directory, before a further call
NewFetcher ==
    \E b \in BOOLEAN :
        /\ calls < MaxCalls
        /\ last_fetch # EmptyMap \/ b # bypass_cache
        /\ last_fetch' = EmptyMap
        /\ bypass_cache' = b
        /\ last_call' = NoCall
        /\ first_reqs' = EmptyMap
        /\ UNCHANGED <<now, cache, site, calls, faults, store_vars, thread_vars>>
        /\ UNCHANGED <<discovery_vars, scored, document_vars>>

\* one call fetcher.fetch(url, source_id), `delay` seconds after the last call
\* returned, answered by the server according to a script
FetchCall ==
    /\ calls < MaxCalls
    /\ \E url \in FetchUrls, delay \in Delays, script \in ScriptTable :
        /\ script.nfaults = 0 \/ faults = 0
        /\ \E jitters \in JitterScripts(script.nsleeps) :
            LET t   == now + delay
                env == [responses |-> script.responses, jitters |-> jitters,
                        doc |-> site[url][1]]
            IN  FetcherEffect(url, t, env, fetch(url, t, env))
    /\ UNCHANGED <<bypass_cache, site>>
    /\ UNCHANGED <<discovery_vars, scored, document_vars>>

FetchNext == FetchCall \/ NewFetcher

SpecFetch == FetchInit /\ [][FetchNext]_vars

(***************************************************************************)
(* fetcher.py: a session of fetch and clean_old_cache calls on one fetcher *)
(* and one cache directory, with the time between calls chosen by the      *)
(* caller.                                                                 *)
(***************************************************************************)
\* clean_old_cache calls per session
MaxSweeps == 2

\* fetch calls per session
MaxStores == 2

\* seconds between the return of one call and the start of a fetch
StoreDelays == {0, 7 * seconds_per_day}

\* seconds between the return of one call and the start of a sweep
SweepDelays == {0, 1}

\* max_age_days: the default of clean_old_cache and zero
SweepAges == {0, 7}

\* the answers a fetch of the session can meet
SweepScripts ==
    {s \in ScriptTable :
        s.responses \in {<<OkResponse>>, <<HttpError(403)>>, <<HttpError(503)>>,
                         <<NetworkException, OkResponse>>}}

SweepInit ==
    /\ FetcherInit
    /\ bypass_cache = FALSE
    /\ site = FetchSite
    /\ source_id = "other"
    /\ DiscoveryIdle
    /\ DocumentsIdle
    /\ scored = None

\* one call fetcher.fetch(url, source_id) of fetcher.py
FetchAndStore ==
    /\ calls < MaxStores
    /\ \E url \in FetchUrls, delay \in StoreDelays, script \in SweepScripts :
        LET t   == now + delay
            env == [responses |-> script.responses, jitters |-> <<>>, doc |-> site[url][1]]
            f   == fetcher_fetch(cache_files, url, t, env)
        IN  /\ now' = f.t
            /\ cache_files' = f.files
            /\ last_fetch' = f.last_fetch
            /\ last_call' = [url |-> url, start |-> t, bypass |-> FALSE,
                             entry |-> fetcher_get_cached(cache_files, url),
                             answers |-> [i \in 1..Len(f.requests) |-> Answer(env, i)],
                             content |-> f.content, metadata |-> f.metadata,
                             requests |-> f.requests, sleeps |-> f.sleeps,
                             rate_sleep |-> f.rate_sleep, finish |-> f.t]
    /\ calls' = calls + 1
    /\ UNCHANGED <<cache, bypass_cache, site, faults, first_reqs, sweeps, last_sweep, thread_vars>>
    /\ UNCHANGED <<discovery_vars, scored, document_vars>>

\* one call fetcher.clean_old_cache(max_age_days)
Sweep ==
    /\ sweeps < MaxSweeps
    /\ \E max_age_days \in SweepAges, delay \in SweepDelays :
        /\ now' = now + delay
        /\ cache_files' = clean_old_cache(cache_files, max_age_days, now + delay)
        /\ last_sweep' = Some([max_age_days |-> max_age_days, at |-> now + delay,
                               before |-> cache_files])
    /\ sweeps' = sweeps + 1
    /\ UNCHANGED <<cache, last_fetch, bypass_cache, site, calls, faults, last_call, first_reqs, thread_vars>>
    /\ UNCHANGED <<discovery_vars, scored, document_vars>>

SweepNext == FetchAndStore \/ Sweep

SpecSweep == SweepInit /\ [][SweepNext]_vars

(***************************************************************************)
(* Two threads that call fetch on one shared ProductionFetcher for URLs of *)
(* one domain.  The interpreter may switch threads between any two         *)
(* statements of _rate_limit, and the clock may advance between any two    *)
(* steps.  The fetcher bypasses its cache, so every call goes to the       *)
(* network, and every request is answered at once.                         *)
(***************************************************************************)
\* fetch calls per thread
MaxThreadCalls == 2

\* the last second of the session
MaxClock == 3

\* the URL each thread fetches
ThreadUrl == [w \in Threads |-> IF w = "t1" THEN "A" ELSE "B"]

ThreadInit ==
    /\ FetcherInit
    /\ bypass_cache = TRUE
    /\ site = FetchSite
    /\ source_id = "other"
    /\ DiscoveryIdle
    /\ DocumentsIdle
    /\ scored = None

ThreadFrame ==
    /\ UNCHANGED <<cache, bypass_cache, site, calls, faults, last_call, first_reqs, store_vars>>
    /\ UNCHANGED <<discovery_vars, scored, document_vars>>

\* fetch up to `now = time.time()` of _rate_limit (no cache read under bypass)
ThreadEnter(w) ==
    /\ thread_pc[w] = "idle"
    /\ Len(thread_reqs[w]) < MaxThreadCalls
    /\ thread_now' = [thread_now EXCEPT ![w] = now]
    /\ thread_pc' = [thread_pc EXCEPT ![w] = "check"]
    /\ UNCHANGED <<now, last_fetch, thread_wake, thread_reqs>>
    /\ ThreadFrame

\* `if domain in self.last_fetch` ... `if elapsed < self.min_delay`, and the
\* start of time.sleep
ThreadCheck(w) ==
    LET domain  == DomainOf[ThreadUrl[w]]
        elapsed == thread_now[w] - last_fetch[domain]
    IN  /\ thread_pc[w] = "check"
        /\ IF domain \in DOMAIN last_fetch /\ elapsed < min_delay
           THEN /\ thread_wake' = [thread_wake EXCEPT ![w] = now + (min_delay - elapsed)]
                /\ thread_pc' = [thread_pc EXCEPT ![w] = "sleep"]
           ELSE /\ thread_pc' = [thread_pc EXCEPT ![w] = "store"]
                /\ UNCHANGED thread_wake
        /\ UNCHANGED <<now, last_fetch, thread_now, thread_reqs>>
        /\ ThreadFrame

\* time.sleep returns
ThreadWake(w) ==
    /\ thread_pc[w] = "sleep"
    /\ now >= thread_wake[w]
    /\ thread_pc' = [thread_pc EXCEPT ![w] = "store"]
    /\ UNCHANGED <<now, last_fetch, thread_now, thread_wake, thread_reqs>>
    /\ ThreadFrame

\* `self.last_fetch[domain] = now`
ThreadStore(w) ==
    LET domain == DomainOf[ThreadUrl[w]]
    IN  /\ thread_pc[w] = "store"
        /\ last_fetch' = [d \in DOMAIN last_fetch \cup {domain} |->
                            IF d = domain THEN thread_now[w] ELSE last_fetch[d]]
        /\ thread_pc' = [thread_pc EXCEPT ![w] = "request"]
        /\ UNCHANGED <<now, thread_now, thread_wake, thread_reqs>>
        /\ ThreadFrame

\* _fetch_once: the network request; the call returns
ThreadRequest(w) ==
    /\ thread_pc[w] = "request"
    /\ thread_reqs' = [thread_reqs EXCEPT ![w] = Append(@, now)]
    /\ thread_pc' = [thread_pc EXCEPT ![w] = "idle"]
    /\ UNCHANGED <<now, last_fetch, thread_now, thread_wake>>
    /\ ThreadFrame

\* a second passes
Tick ==
    /\ now < MaxClock
    /\ now' = now + 1
    /\ UNCHANGED <<last_fetch, thread_vars>>
    /\ ThreadFrame

ThreadNext ==
    \/ \E w \in Threads : ThreadEnter(w)
    \/ \E w \in Threads : ThreadCheck(w)
    \/ \E w \in Threads : ThreadWake(w)
    \/ \E w \in Threads : ThreadStore(w)
    \/ \E w \in Threads : ThreadRequest(w)
    \/ Tick

SpecThreads == ThreadInit /\ [][ThreadNext]_vars

(***************************************************************************)
(* Discovery: runs of discover_agenda_deep on one fetcher and one site.    *)
(* A URL's document is fixed the first time the site serves it.            *)
(***************************************************************************)
Init ==
    /\ FetcherInit
    /\ site = [u \in Urls |-> None]
    /\ source_id \in DiscoverySources
    /\ DiscoveryIdle
    /\ DocumentsIdle
    /\ scored = None

\* the call discover_agenda_deep(landing, source_id, maxd) up to the loop
StartRun ==
    /\ dpc \in {"idle", "done"}
    /\ runs < MaxRuns
    /\ \E landing \in Landings, maxd \in 0..MaxDepth, delay \in RunDelays :
        /\ runs > 0 => landing = landing_url /\ maxd = max_depth
        /\ runs = 0 => delay = 0
        /\ now' = now + delay
        /\ landing_url' = landing
        /\ max_depth' = maxd
        /\ current_url' = landing
    /\ dpc' = "loop"
    /\ depth' = 0
    /\ visited' = {}
    /\ result' = NewResult(landing_url')
    /\ runs' = runs + 1
    /\ fetched' = <<>>
    /\ returned' = IF dpc = "done" THEN Append(returned, result) ELSE returned
    /\ UNCHANGED <<cache, last_fetch, bypass_cache, site, calls, faults, last_call, first_reqs, source_id, scored>>
    /\ UNCHANGED <<store_vars, thread_vars>>
    /\ UNCHANGED document_vars

\* where the loop goes after an iteration with the given outcome
LoopControl(outcome) ==
    IF outcome = "continue" /\ depth < max_depth
    THEN dpc' = "loop" /\ depth' = depth + 1
    ELSE dpc' = "done" /\ depth' = depth

\* a faulty variant of is_visited: no URL counts as visited
never_visited(url, vis) == FALSE

\* line 542: `if current_url in visited`
is_visited(url, vis) == url \in vis

\* an iteration that finds current_url in visited (lines 542-547)
LoopDetected ==
    /\ dpc = "loop"
    /\ is_visited(current_url, visited)
    /\ result' = [result EXCEPT !.depth_reached = depth,
                                !.error = Some([text |-> "Loop detected at", arg |-> Some(current_url)]),
                                !.status = "fail-loop"]
    /\ LoopControl("break")
    /\ UNCHANGED <<fetcher_vars, source_id, landing_url, max_depth, current_url, visited, runs, fetched,
                   returned, scored>>
    /\ UNCHANGED document_vars

\* the documents the fetch of url may be answered with
PageChoices(url, script) ==
    IF site[url] # None THEN {site[url][1]}
    ELSE IF ScriptSucceeds(script.responses) THEN Pages[url]
    ELSE {EmptyDoc}

\* the assignments of an iteration whose fetch returned f and whose body
\* ended as `body` says
Iterate(env, page, f, body) ==
    /\ FetcherEffect(current_url, now, env, f)
    /\ site' = IF f.metadata.status_code = Some(200)
               THEN [site EXCEPT ![current_url] = Some(page)]
               ELSE site
    /\ visited' = visited \cup {current_url}
    /\ fetched' = Append(fetched, current_url)
    /\ result' = body.result
    /\ current_url' = body.current_url
    /\ LoopControl(body.outcome)

\* the iteration on the fetch's return value f (lines 549-681)
IterateOn(env, page, f) ==
    Iterate(env, page, f,
            loop_body([result EXCEPT !.depth_reached = depth], depth, current_url,
                      visited \cup {current_url}, f.content, f.metadata, source_id, max_depth))

\* an iteration that fetches current_url and processes it (lines 542-681)
VisitPage ==
    /\ dpc = "loop"
    /\ ~is_visited(current_url, visited)
    /\ \E script \in DiscoveryScripts :
        /\ script.nfaults = 0 \/ (faults = 0 /\ runs = 1)
        /\ \E page \in PageChoices(current_url, script) :
            LET env == [responses |-> script.responses, jitters |-> <<>>, doc |-> page]
            IN  IterateOn(env, page, fetch(current_url, now, env))
    /\ UNCHANGED <<bypass_cache, source_id, landing_url, max_depth, runs, returned, scored, document_vars>>

Next == StartRun \/ LoopDetected \/ VisitPage

Spec == Init /\ [][Next]_vars

\* an iteration of the for loop takes place: the loop variable advances or
\* the function returns
LoopIteration ==
    /\ dpc = "loop"
    /\ \E outcome \in {"continue", "break"} : LoopControl(outcome)

\* The loop of a run that has been started keeps running:
\* discover_agenda_deep is sequential code, and fetch returns after at most
\* three attempts.
SpecRuns == Init /\ [][Next]_vars /\ WF_<<dpc, depth>>(LoopIteration)

(***************************************************************************)
(* The scorer alone: score_link_v2 applied to an agenda-packet link and a  *)
(* calendar link of the same page, for every source id.  The links sit     *)
(* under a path prefix and the calendar link carries an anchor text, both  *)
(* drawn from texts that match no rule of the scorer.                      *)
(***************************************************************************)
PacketFile == <<"/", "2", "0", "2", "4", "-", "a", "g", "e", "n", "d", "a", "-", "p", "a", "c", "k", "e", "t", ".", "p", "d", "f">>

PacketAnchor == <<"A", "g", "e", "n", "d", "a", " ", "P", "a", "c", "k", "e", "t">>

CalendarFile == <<"/", "c", "a", "l", "e", "n", "d", "a", "r", ".", "p", "d", "f">>

\* every entry of SOURCE_PATTERNS and an id without an entry
ScoreSources == DOMAIN SOURCE_PATTERNS \cup {"other"}

\* where the two files are linked from: relative, below a directory, absolute
HrefPrefixes ==
    {<<>>,
     <<"/", "f", "i", "l", "e", "s">>,
     <<"h", "t", "t", "p", "s", ":", "/", "/", "x", ".", "g", "o", "v", "/", "f", "i", "l", "e", "s">>}

\* anchor texts of the calendar link
PlainAnchors ==
    {<<>>,
     <<"V", "i", "e", "w">>,
     <<"S", "c", "h", "e", "d", "u", "l", "e">>}

\* pages the links are found on
ScoreBases == {"A", "B"}

ScoreInit ==
    /\ FetcherInit
    /\ site = FetchSite
    /\ source_id = "other"
    /\ DiscoveryIdle
    /\ DocumentsIdle
    /\ scored \in {Some([source |-> s, prefix |-> p, anchor |-> a, base |-> b,
                           packet |-> None, calendar |-> None]) :
                        s \in ScoreSources, p \in HrefPrefixes, a \in PlainAnchors, b \in ScoreBases}

\* both links are scored as extract_links_v2 scores them
ScoreLinks ==
    /\ scored # None
    /\ scored[1].packet = None
    /\ scored' = Some([scored[1] EXCEPT
            !.packet = Some(score_link_v2(scored[1].prefix \o PacketFile, PacketAnchor,
                                          UrlText[scored[1].base], scored[1].source, 0)),
            !.calendar = Some(score_link_v2(scored[1].prefix \o CalendarFile, scored[1].anchor,
                                            UrlText[scored[1].base], scored[1].source, 0))])
    /\ UNCHANGED <<fetcher_vars, discovery_vars, document_vars>>

SpecScore == ScoreInit /\ [][ScoreLinks]_vars

\* both links have been scored
Scored == scored # None /\ scored[1].packet # None

\* C10: for every source id the agenda-packet link scores strictly higher
\* than the calendar link of the same page, and the calendar link scores
\* below zero.
C10_PacketBeatsCalendar ==
    Scored =>
        /\ scored[1].packet[1] > scored[1].calendar[1]
        /\ scored[1].calendar[1] < 0

\* C10: for county_bos the calendar link scores +23.
C10_CountyCalendarPositive ==
    /\ Scored
    /\ scored[1].source = "county_bos"
    /\ scored[1].calendar[1] = 23
    /\ scored[1].packet[1] > scored[1].calendar[1]

(***************************************************************************)
(* Properties of ProductionFetcher.fetch, stated on the observation of the *)
(* most recent call (last_call) and checked under SpecFetch.               *)
(***************************************************************************)
Called == last_call.url # "none"

\* the call met a cache entry younger than one hour on a fetcher that reads
\* the cache
MetFreshEntry ==
    /\ ~last_call.bypass
    /\ last_call.entry # None
    /\ last_call.start - last_call.entry[1].cached_at < 3600

\* the result was served from the cache
CacheServed ==
    /\ last_call.metadata.cached
    /\ last_call.content # None
    /\ last_call.requests = <<>>
    /\ last_call.rate_sleep = 0

\* C4: on one fetcher instance, the first network requests of two successive
\* calls that go to the network for the same domain start at least min_delay
\* seconds apart, also when the earlier call slept in _rate_limit.
C4_RequestsSpaced ==
    \A d \in DOMAIN first_reqs :
        Len(first_reqs[d]) = 2 => first_reqs[d][2] - first_reqs[d][1] >= 2

\* C4: a call that slept in _rate_limit is followed by a request to the same
\* domain less than two seconds after its own.
C4_TooClose ==
    /\ Called
    /\ \E d \in DOMAIN first_reqs :
        /\ Len(first_reqs[d]) = 2
        /\ first_reqs[d][2] - first_reqs[d][1] < 2
        /\ first_reqs[d][2] = last_call.requests[1]

\* C5: fetch serves from the cache (cached flag set, no request, no
\* rate-limit sleep, the entry's content) exactly when bypass is off and the
\* URL has an entry younger than 3600 seconds; otherwise content is returned
\* only after a network request.
C5_CacheServedIffFresh ==
    Called =>
        /\ CacheServed <=> MetFreshEntry
        /\ last_call.metadata.cached <=> MetFreshEntry
        /\ MetFreshEntry => last_call.content = Some(last_call.entry[1].content)
        /\ ~MetFreshEntry /\ last_call.content # None => last_call.requests # <<>>

\* C5: a call meets an entry that is 3599 seconds old and is served from it.
C5_ServedAtWindowEdge ==
    /\ Called
    /\ CacheServed
    /\ last_call.start - last_call.entry[1].cached_at = 3599

\* the HTTP status of the call's i-th answer is a client error other than 429
ClientErrorAt(i) ==
    /\ last_call.answers[i].kind = "http_error"
    /\ last_call.answers[i].code \in 400..499
    /\ last_call.answers[i].code # 429

\* the call's i-th answer is HTTP 429, HTTP 5xx or a network exception
TransientAt(i) ==
    \/ last_call.answers[i].kind = "exception"
    \/ /\ last_call.answers[i].kind = "http_error"
       /\ (last_call.answers[i].code = 429 \/ last_call.answers[i].code \in 500..599)

\* C6: a call issues at most three requests; exactly one when the first
\* answer is a 4xx other than 429, returning no content with that status
\* recorded; and every further request follows a 429, 5xx or exception
\* answer and a backoff sleep.
C6_RetryDiscipline ==
    Called =>
        /\ Len(last_call.requests) <= 3
        /\ (last_call.requests # <<>> /\ ClientErrorAt(1)) =>
                /\ Len(last_call.requests) = 1
                /\ last_call.content = None
                /\ last_call.metadata.status_code = Some(last_call.answers[1].code)
        /\ \A i \in 2..Len(last_call.requests) :
                /\ TransientAt(i - 1)
                /\ last_call.sleeps[i - 1] >= 1
                /\ last_call.requests[i] = last_call.requests[i - 1] + last_call.sleeps[i - 1]

\* C6: a call that used all three attempts after a 429 and a network exception.
C6_ThreeAttempts ==
    /\ Called
    /\ Len(last_call.requests) = 3
    /\ last_call.answers[1] = HttpError(429)
    /\ last_call.answers[2] = NetworkException

\* the call was answered 503, 503, 200
Answered503Twice == Called /\ last_call.answers = <<HttpError(503), HttpError(503), OkResponse>>

\* what C7 says of the result and the sleeps
RecoveredAfterBackoff ==
    /\ last_call.content = site[last_call.url]
    /\ last_call.metadata.status_code = Some(200)
    /\ Len(last_call.requests) = 3
    /\ last_call.sleeps[1] \in {1, 2}
    /\ last_call.sleeps[2] \in {2, 3}
    /\ last_call.requests[3] - last_call.requests[1] >= 3

\* the cache holds the call's content, stored at the time of the last request
StoredInCache ==
    /\ last_call.url \in DOMAIN cache
    /\ Some(cache[last_call.url].content) = last_call.content
    /\ cache[last_call.url].cached_at = last_call.requests[Len(last_call.requests)]

\* the cache holds for the call's URL what it held before the call
CacheUntouched ==
    IF last_call.entry = None THEN last_call.url \notin DOMAIN cache
    ELSE last_call.url \in DOMAIN cache /\ cache[last_call.url] = last_call.entry[1]

\* C7: a URL answering 503, 503, 200 yields the 200 body with status 200
\* after three requests, with backoff sleeps of base 1 and 2 seconds before
\* the second and third; the content is stored in the cache when bypass is
\* off, and the cache is left alone when bypass is on.
C7_RecoversAndCaches ==
    Answered503Twice =>
        /\ RecoveredAfterBackoff
        /\ ~last_call.bypass => StoredInCache
        /\ last_call.bypass => CacheUntouched

\* C7 as stated: the content is stored in the cache in every case.
C7_AlwaysCached ==
    Answered503Twice => RecoveredAfterBackoff /\ StoredInCache

\* C7: the recovery on a fetcher that writes the cache.
C7_RecoveredAndStored ==
    Answered503Twice /\ ~last_call.bypass /\ StoredInCache

\* C8: a call that returns no content reports an error, and the HTTP status
\* when the server answered with one.
C8_FailureHasError ==
    (Called /\ last_call.content = None) =>
        /\ last_call.metadata.error # None
        /\ (\E i \in 1..Len(last_call.answers) : last_call.answers[i].kind = "http_error")
                => last_call.metadata.status_code # None

\* C8: three 503 answers in a row end in no content and no error.
C8_SilentFailure ==
    /\ Called
    /\ last_call.answers = <<HttpError(503), HttpError(503), HttpError(503)>>
    /\ last_call.content = None
    /\ last_call.metadata.error = None

\* C9: a result with content has status_code, content_type and sha256, and a
\* cache-served result has the status_code stored with the entry.
C9_ContentHasMetadata ==
    (Called /\ last_call.content # None) =>
        /\ last_call.metadata.status_code # None
        /\ last_call.metadata.content_type # None
        /\ last_call.metadata.sha256 # None
        /\ last_call.metadata.cached =>
                last_call.metadata.status_code = last_call.entry[1].metadata.status_code

\* C9: a cache-served result without status_code and content_type.
C9_CachedWithoutStatus ==
    /\ Called
    /\ CacheServed
    /\ last_call.metadata.status_code = None
    /\ last_call.metadata.content_type = None
    /\ last_call.metadata.sha256 # None

(***************************************************************************)
(* Properties of discover_agenda_deep, checked under Spec.                 *)
(***************************************************************************)
Returned == dpc = "done"

TerminalStatuses ==
    {"success-agenda", "success-agenda-html", "fail-loop", "fail-fetch",
     "fail-no-agenda-yet", "fail-no-links", "fail-max-depth"}

\* C1: the result discover_agenda_deep returns has one of the seven terminal
\* statuses; 'searching' is never returned.
C1_TerminalStatus == Returned => result.status \in TerminalStatuses

\* C1: a run whose last allowed iteration fetched a PDF that is neither an
\* agenda nor a no-agenda notice returns with status 'searching'.
C1_ReturnedSearching ==
    /\ Returned
    /\ result.status = "searching"
    /\ result.depth_reached = max_depth
    /\ result.discovery_path[Len(result.discovery_path)].rejected # None

\* the document url is known to serve is an HTML page that is not accepted
\* as an agenda
PlainHtml(url) ==
    /\ site[url] # None
    /\ site[url][1].size > 0
    /\ site[url][1].content_type = "text/html"
    /\ ~EndsWith(lower(UrlText[url]), KwPdf)
    /\ ~(site[url][1].doc_type = "agenda" /\ site[url][1].long)

\* page A carries one link, to itself, and the current run started at A
SelfLinkRun ==
    /\ dpc # "idle"
    /\ landing_url = "A"
    /\ PlainHtml("A")
    /\ site["A"][1].links = <<"toA">>

\* C2: a run started at A, whose only link points to A, is over as soon as
\* it has fetched A, which it does once; it returns fail-fetch when that
\* fetch gives no status-200 content, and otherwise fail-no-links (with
\* max_depth = 0: fail-max-depth) at depth_reached 0; never fail-loop.
C2_SelfLinkEndsAtDepth0 ==
    (SelfLinkRun /\ (fetched # <<>> \/ Returned)) =>
        /\ Returned
        /\ fetched = <<"A">>
        /\ result.depth_reached = 0
        /\ result.status =
                IF fetch_failed(last_call.content, last_call.metadata) THEN "fail-fetch"
                ELSE IF max_depth = 0 THEN "fail-max-depth"
                ELSE "fail-no-links"

\* C2 as stated: the run ends with fail-loop and depth_reached 1 after one
\* fetch of A.
C2_SelfLinkFailLoop ==
    (SelfLinkRun /\ Returned) =>
        /\ result.status = "fail-loop"
        /\ result.depth_reached = 1
        /\ fetched = <<"A">>

\* C2: such a run, with depth budget left, returned fail-no-links.
C2_SelfLinkNoLinks ==
    /\ SelfLinkRun
    /\ Returned
    /\ max_depth >= 1
    /\ result.status = "fail-no-links"
    /\ fetched = <<"A">>

\* the target of the only link of the page at url
OnlyLink(url) == CandidateOf(site[url][1].links[1], url, source_id)

\* url starts a chain of k + 1 plain HTML pages not in `seen`: each has one
\* link, which the loop may follow, to the next page
RECURSIVE IsChain(_, _, _)
IsChain(url, k, seen) ==
    /\ url \in Urls \ seen
    /\ PlainHtml(url)
    /\ Len(site[url][1].links) = 1
    /\ ~IsSkippedHref(LinkHref[site[url][1].links[1]])
    /\ OnlyLink(url).score > -20
    /\ OnlyLink(url).url \notin seen \cup {url}
    /\ k > 0 => IsChain(OnlyLink(url).url, k - 1, seen \cup {url})

\* the pages of the chain that starts at url, k + 1 of them
RECURSIVE ChainPages(_, _)
ChainPages(url, k) ==
    IF k = 0 THEN <<url>> ELSE <<url>> \o ChainPages(OnlyLink(url).url, k - 1)

\* the current run is on a chain longer than max_depth
ChainRun == dpc # "idle" /\ IsChain(landing_url, max_depth, {})

FailureStatuses ==
    {"fail-loop", "fail-fetch", "fail-no-agenda-yet", "fail-no-links", "fail-max-depth"}

\* the steps of the discovery path that record a PDF classified as neither
\* an agenda nor a no-agenda notice
OtherPdfSteps ==
    {i \in DOMAIN result.discovery_path :
        /\ result.discovery_path[i].type = "PDF"
        /\ result.discovery_path[i].doc_type \notin {Some("agenda"), Some("no-agenda-yet")}}

\* C19: a PDF that is classified as neither agenda nor no-agenda-yet is
\* marked rejected in its path step, nothing is fetched after it, and the
\* run returns one of the failure statuses.
C19_RejectedPdfFails ==
    \A i \in OtherPdfSteps :
        /\ result.discovery_path[i].rejected # None
        /\ i = Len(result.discovery_path)
        /\ fetched # <<>>
        /\ fetched[Len(fetched)] = result.discovery_path[i].url
        /\ Len(fetched) = result.discovery_path[i].depth + 1
        /\ Returned => result.status \in FailureStatuses

\* C19: a run with max_depth 1 followed a link to a PDF, rejected it and
\* returned without a failure status.
C19_RejectedAfterLink ==
    /\ Returned
    /\ max_depth = 1
    /\ Len(fetched) = 2
    /\ OtherPdfSteps = {Len(result.discovery_path)}
    /\ result.discovery_path[Len(result.discovery_path)].rejected # None
    /\ result.status \notin FailureStatuses

\* the page fetched last in the current run
LastPage == fetched[Len(fetched)]

\* the last fetch of the run gave a plain HTML page, at a depth below
\* max_depth, none of whose links the loop may follow
NoLinkToFollow ==
    /\ fetched # <<>>
    /\ Len(fetched) - 1 < max_depth
    /\ ~fetch_failed(last_call.content, last_call.metadata)
    /\ PlainHtml(LastPage)
    /\ eligible_links(extract_links_v2(site[LastPage][1].links, LastPage, source_id,
                                       Len(fetched) - 1), visited) = {}

\* C20: a run whose last page, above max depth, is plain HTML with no
\* unvisited link scoring over -20 returns fail-no-links.
C20_NoLinksStatus ==
    (Returned /\ NoLinkToFollow) => result.status = "fail-no-links"

\* C20: a run with depth budget left fetched a page without any link and
\* returned fail-max-depth.
C20_EmptyPageMaxDepth ==
    /\ Returned
    /\ NoLinkToFollow
    /\ site[LastPage][1].links = <<>>
    /\ result.depth_reached < max_depth
    /\ result.status = "fail-max-depth"

(***************************************************************************)
(* DocumentClassifier (deep_discovery.py): a text is a sequence of         *)
(* characters; "\n" separates its lines.                                   *)
(***************************************************************************)
LowerToUpper ==
    [c \in Letters |-> CHOOSE u \in DOMAIN UpperToLower : UpperToLower[u] = c]

\* str.upper()
upper(s) ==
    [i \in 1..Len(s) |-> IF s[i] \in Letters THEN LowerToUpper[s[i]] ELSE s[i]]

\* the characters str.strip() and the regex class \s treat as white space
WhiteSpace == {" ", "\t", "\r", "\n"}

\* the characters of the regex class \w
WordChars == Letters \cup DOMAIN UpperToLower \cup Digits \cup {"_"}

\* the k-th smallest element of a set of numbers
KthOf(ps, k) == CHOOSE p \in ps : Cardinality({q \in ps : q < p}) = k - 1

\* str.split(c) for a one-character separator
Split(s, c) ==
    LET ps     == Positions(s, c)
        n      == Cardinality(ps)
        cut(k) == IF k = 0 THEN 0 ELSE IF k = n + 1 THEN Len(s) + 1 ELSE KthOf(ps, k)
    IN  [k \in 1..(n + 1) |-> SubSeq(s, cut(k - 1) + 1, cut(k) - 1)]

\* sep.join(parts)
RECURSIVE JoinWith(_, _)
JoinWith(parts, sep) ==
    IF parts = <<>> THEN <<>>
    ELSE IF Len(parts) = 1 THEN parts[1]
    ELSE parts[1] \o sep \o JoinWith(Tail(parts), sep)

\* str.strip()
strip(s) ==
    LET inked == {i \in 1..Len(s) : s[i] \notin WhiteSpace}
    IN  IF inked = {} THEN <<>> ELSE SubSeq(s, SetMin(inked), SetMax(inked))

\* re.search(r'\b' + re.escape(term) + r'\b', s) for a term that starts and
\* ends with a letter
SearchWord(s, term) ==
    \E i \in 1..(Len(s) - Len(term) + 1) :
        /\ SubSeq(s, i, i + Len(term) - 1) = term
        /\ i = 1 \/ s[i - 1] \notin WordChars
        /\ i + Len(term) - 1 = Len(s) \/ s[i + Len(term)] \notin WordChars

\* the elements of a sequence
Range(s) == {s[i] : i \in DOMAIN s}

\* DocumentClassifier.NAV_TERMS
NAV_TERMS ==
    <<
        <<"h", "o", "m", "e">>,   \* 'home'
        <<"a", "b", "o", "u", "t">>,   \* 'about'
        <<"c", "o", "n", "t", "a", "c", "t">>,   \* 'contact'
        <<"m", "e", "e", "t", "i", "n", "g", "s">>,   \* 'meetings'
        <<"a", "g", "e", "n", "d", "a", "s">>,   \* 'agendas'
        <<"m", "i", "n", "u", "t", "e", "s">>,   \* 'minutes'
        <<"c", "a", "l", "e", "n", "d", "a", "r">>,   \* 'calendar'
        <<"s", "e", "a", "r", "c", "h">>,   \* 'search'
        <<"m", "e", "n", "u">>,   \* 'menu'
        <<"n", "a", "v", "i", "g", "a", "t", "i", "o", "n">>,   \* 'navigation'
        <<"s", "k", "i", "p", " ", "t", "o", " ", "c", "o", "n", "t", "e", "n", "t">>,   \* 'skip to content'
        <<"p", "r", "i", "v", "a", "c", "y", " ", "p", "o", "l", "i", "c", "y">>,   \* 'privacy policy'
        <<"t", "e", "r", "m", "s", " ", "o", "f", " ", "u", "s", "e">>,   \* 'terms of use'
        <<"s", "i", "t", "e", "m", "a", "p">>,   \* 'sitemap'
        <<"l", "o", "g", "i", "n">>,   \* 'login'
        <<"l", "o", "g", "o", "u", "t">>   \* 'logout'
    >>

\* DocumentClassifier.AGENDA_PHRASES
AGENDA_PHRASES ==
    <<
        <<"c", "a", "l", "l", " ", "t", "o", " ", "o", "r", "d", "e", "r">>,   \* 'call to order'
        <<"r", "o", "l", "l", " ", "c", "a", "l", "l">>,   \* 'roll call'
        <<"p", "u", "b", "l", "i", "c", " ", "c", "o", "m", "m", "e", "n", "t">>,   \* 'public comment'
        <<"a", "d", "j", "o", "u", "r", "n", "m", "e", "n", "t">>,   \* 'adjournment'
        <<"c", "l", "o", "s", "e", "d", " ", "s", "e", "s", "s", "i", "o", "n">>,   \* 'closed session'
        <<"a", "g", "e", "n", "d", "a", " ", "i", "t", "e", "m">>,   \* 'agenda item'
        <<"i", "t", "e", "m", " ", "n", "o", ".">>,   \* 'item no.'
        <<"i", "t", "e", "m", " ", "#">>,   \* 'item #'
        <<"a", "c", "t", "i", "o", "n", " ", "i", "t", "e", "m">>,   \* 'action item'
        <<"c", "o", "n", "s", "e", "n", "t", " ", "c", "a", "l", "e", "n", "d", "a", "r">>,   \* 'consent calendar'
        <<"p", "u", "b", "l", "i", "c", " ", "h", "e", "a", "r", "i", "n", "g">>   \* 'public hearing'
    >>

\* classify: calendar_indicators
calendar_indicators ==
    <<
        <<"m", "e", "e", "t", "i", "n", "g", " ", "c", "a", "l", "e", "n", "d", "a", "r">>,   \* 'meeting calendar'
        <<"s", "c", "h", "e", "d", "u", "l", "e", " ", "o", "f", " ", "m", "e", "e", "t", "i", "n", "g", "s">>,   \* 'schedule of meetings'
        <<"c", "a", "l", "e", "n", "d", "a", "r", " ", "y", "e", "a", "r">>,   \* 'calendar year'
        <<"f", "y", "2", "0">>,   \* 'fy20'
        <<"f", "i", "s", "c", "a", "l", " ", "y", "e", "a", "r">>   \* 'fiscal year'
    >>

\* classify: minutes_indicators
minutes_indicators ==
    <<
        <<"m", "e", "e", "t", "i", "n", "g", " ", "m", "i", "n", "u", "t", "e", "s">>,   \* 'meeting minutes'
        <<"a", "p", "p", "r", "o", "v", "e", "d", " ", "m", "i", "n", "u", "t", "e", "s">>,   \* 'approved minutes'
        <<"m", "i", "n", "u", "t", "e", "s", " ", "o", "f">>,   \* 'minutes of'
        <<"t", "h", "e", " ", "m", "e", "e", "t", "i", "n", "g", " ", "w", "a", "s", " ", "c", "a", "l", "l", "e", "d", " ", "t", "o", " ", "o", "r", "d", "e", "r">>,   \* 'the meeting was called to order'
        <<"p", "r", "e", "s", "e", "n", "t", ":">>   \* 'present:'
    >>

\* classify: no_agenda_indicators
no_agenda_indicators ==
    <<
        <<"n", "o", " ", "a", "g", "e", "n", "d", "a">>,   \* 'no agenda'
        <<"a", "g", "e", "n", "d", "a", " ", "n", "o", "t", " ", "y", "e", "t">>,   \* 'agenda not yet'
        <<"a", "g", "e", "n", "d", "a", " ", "w", "i", "l", "l", " ", "b", "e", " ", "p", "o", "s", "t", "e", "d">>,   \* 'agenda will be posted'
        <<"n", "o", "t", " ", "a", "v", "a", "i", "l", "a", "b", "l", "e">>,   \* 'not available'
        <<"c", "o", "m", "i", "n", "g", " ", "s", "o", "o", "n">>,   \* 'coming soon'
        <<"c", "h", "e", "c", "k", " ", "b", "a", "c", "k", " ", "l", "a", "t", "e", "r">>,   \* 'check back later'
        <<"a", "g", "e", "n", "d", "a", " ", "h", "a", "s", " ", "n", "o", "t", " ", "b", "e", "e", "n", " ", "p", "o", "s", "t", "e", "d">>   \* 'agenda has not been posted'
    >>

\* classify: index_indicators
index_indicators ==
    <<
        <<"u", "p", "c", "o", "m", "i", "n", "g", " ", "m", "e", "e", "t", "i", "n", "g", "s">>,   \* 'upcoming meetings'
        <<"m", "e", "e", "t", "i", "n", "g", " ", "l", "i", "s", "t">>,   \* 'meeting list'
        <<"a", "l", "l", " ", "m", "e", "e", "t", "i", "n", "g", "s">>,   \* 'all meetings'
        <<"s", "e", "l", "e", "c", "t", " ", "a", " ", "m", "e", "e", "t", "i", "n", "g">>,   \* 'select a meeting'
        <<"f", "i", "l", "t", "e", "r", " ", "b", "y">>,   \* 'filter by'
        <<"s", "e", "a", "r", "c", "h", " ", "m", "e", "e", "t", "i", "n", "g", "s">>,   \* 'search meetings'
        <<"b", "r", "o", "w", "s", "e", " ", "b", "y">>,   \* 'browse by'
        <<"c", "a", "t", "e", "g", "o", "r", "y", ":">>,   \* 'category:'
        <<"t", "a", "g", "s", ":">>   \* 'tags:'
    >>

\* lines shorter than this are dropped by strip_nav_text
min_line_length == 4

\* a line with a navigation term is dropped when it is shorter than the
\* term plus this margin
nav_margin == 10

\* the line holds a navigation term with little else around it
is_nav(line_stripped) ==
    \E t \in DOMAIN NAV_TERMS :
        /\ SearchWord(lower(line_stripped), NAV_TERMS[t])
        /\ Len(line_stripped) < Len(NAV_TERMS[t]) + nav_margin

\* the test that decides whether strip_nav_text keeps a stripped line
keeps_line(line_stripped) ==
    /\ ~(Len(line_stripped) < min_line_length)
    /\ lower(line_stripped) \notin Range(NAV_TERMS)
    /\ ~is_nav(line_stripped)

\* DocumentClassifier.strip_nav_text
strip_nav_text(text) ==
    LET lines    == Split(text, "\n")
        stripped == [i \in 1..Len(lines) |-> strip(lines[i])]
    IN  JoinWith(Filter(stripped, keeps_line), <<"\n">>)

\* the characters that close an item marker: [\.\)\]]
MarkerClosers == {".", ")", "]"}

\* the length of the longest prefix of s made of characters of cs
PrefixRun(s, cs) ==
    LET stops == {i \in 1..Len(s) : s[i] \notin cs}
    IN  IF stops = {} THEN Len(s) ELSE SetMin(stops) - 1

\* s matches ^[cs]+[\.\)\]]
ClosedRun(s, cs) ==
    /\ PrefixRun(s, cs) >= 1
    /\ Len(s) > PrefixRun(s, cs)
    /\ s[PrefixRun(s, cs) + 1] \in MarkerClosers

RomanChars == {"I", "V", "X", "i", "v", "x"}

\* the marker count_item_markers adds for a line (None: no marker)
marker_of(line_stripped) ==
    IF ClosedRun(line_stripped, Digits)
    THEN Some(SubSeq(line_stripped, 1, PrefixRun(line_stripped, Digits)))
    ELSE IF /\ Len(line_stripped) >= 2
            /\ line_stripped[1] \in Letters \cup DOMAIN UpperToLower
            /\ line_stripped[2] \in MarkerClosers
    THEN Some(upper(<<line_stripped[1]>>))
    ELSE IF ClosedRun(line_stripped, RomanChars)
    THEN Some(<<"R", "O", "M", "A", "N">>)
    ELSE None

\* DocumentClassifier.count_item_markers
count_item_markers(text) ==
    LET lines   == Split(text, "\n")
        markers == {marker_of(strip(lines[i])) : i \in 1..Len(lines)} \ {None}
    IN  Cardinality(markers)

\* any(ind in text for ind in indicators)
ContainsAny(text, indicators) ==
    \E i \in DOMAIN indicators : Contains(text, indicators[i])

\* str.count(p) for a pattern that cannot overlap itself
CountOf(text, p) ==
    Cardinality({i \in 1..(Len(text) - Len(p) + 1) : SubSeq(text, i, i + Len(p) - 1) = p})

\* the prefix of the cleaned text that is searched for phrases
scan_limit == 5000

\* item markers that make a text an agenda
agenda_markers == 5

\* item markers from which a text is no calendar
calendar_markers == 3

\* a cleaned text shorter than this with many links is an index page
short_text == 2000

\* more than this many 'http' in the raw text are many links
many_links == 5

\* a faulty variant of classify_decision: the calendar test comes before the
\* agenda phrase
calendar_first_decision(has_no_agenda, has_agenda_phrase, item_marker_count, has_calendar, has_minutes, index_like) ==
    IF has_no_agenda /\ ~has_agenda_phrase THEN "no-agenda-yet"
    ELSE IF has_calendar /\ item_marker_count < calendar_markers THEN "calendar"
    ELSE IF has_agenda_phrase THEN "agenda"
    ELSE IF item_marker_count >= agenda_markers THEN "agenda"
    ELSE IF has_minutes /\ ~has_agenda_phrase THEN "minutes"
    ELSE IF index_like THEN "index"
    ELSE "unknown"

\* the classification logic of classify (lines 308-322)
classify_decision(has_no_agenda, has_agenda_phrase, item_marker_count, has_calendar, has_minutes, index_like) ==
    IF has_no_agenda /\ ~has_agenda_phrase THEN "no-agenda-yet"
    ELSE IF has_agenda_phrase THEN "agenda"
    ELSE IF item_marker_count >= agenda_markers THEN "agenda"
    ELSE IF has_calendar /\ ~has_agenda_phrase /\ item_marker_count < calendar_markers
    THEN "calendar"
    ELSE IF has_minutes /\ ~has_agenda_phrase THEN "minutes"
    ELSE IF index_like THEN "index"
    ELSE "unknown"

\* cleaned_text.lower()[:5000]
cleaned_lower(cleaned_text) == Take(lower(cleaned_text), scan_limit)

\* any(phrase in cleaned_lower for phrase in AGENDA_PHRASES)
finds_agenda_phrase(cleaned_text) == ContainsAny(cleaned_lower(cleaned_text), AGENDA_PHRASES)

\* the signals classify derives from the raw and the cleaned text
classify_cleaned(text, cleaned_text) ==
    classify_decision(
        ContainsAny(cleaned_lower(cleaned_text), no_agenda_indicators),
        finds_agenda_phrase(cleaned_text),
        count_item_markers(cleaned_text),
        ContainsAny(cleaned_lower(cleaned_text), calendar_indicators),
        ContainsAny(cleaned_lower(cleaned_text), minutes_indicators),
        \/ ContainsAny(cleaned_lower(cleaned_text), index_indicators)
        \/ (Contains(cleaned_lower(cleaned_text), KwAgenda) /\ ~finds_agenda_phrase(cleaned_text))
        \/ (Len(cleaned_text) < short_text /\ CountOf(text, <<"h", "t", "t", "p">>) > many_links))

\* DocumentClassifier.classify
classify(text) == classify_cleaned(text, strip_nav_text(text))


(***************************************************************************)
(* The classifier alone: classify applied to texts made of up to two lines *)
(* of PhraseLines followed by a list of items, and to texts that begin     *)
(* with a line as long as the scanned prefix.                              *)
(***************************************************************************)
PhraseLines ==
    {<<"C", "a", "l", "l", " ", "t", "o", " ", "O", "r", "d", "e", "r">>,
     <<" ", " ", "R", "O", "L", "L", " ", "C", "A", "L", "L", " ", " ">>,
     <<"I", "t", "e", "m", " ", "#", " ", "m", "e", "n", "u">>,
     <<"F", "i", "s", "c", "a", "l", " ", "y", "e", "a", "r", " ", "a", "g", "e", "n", "d", "a", " ", "n", "o", "t", " ", "y", "e", "t", " ", "p", "o", "s", "t", "e", "d">>,
     <<"A", "g", "e", "n", "d", "a", " ", "w", "i", "l", "l", " ", "b", "e", " ", "p", "o", "s", "t", "e", "d", " ", "s", "o", "o", "n">>,
     <<"M", "e", "e", "t", "i", "n", "g", " ", "c", "a", "l", "e", "n", "d", "a", "r", " ", "y", "e", "a", "r", " ", "2", "0", "2", "4">>,
     <<"A", "p", "p", "r", "o", "v", "e", "d", " ", "m", "i", "n", "u", "t", "e", "s", " ", "o", "f", " ", "t", "h", "e", " ", "b", "o", "a", "r", "d">>,
     <<"U", "p", "c", "o", "m", "i", "n", "g", " ", "m", "e", "e", "t", "i", "n", "g", "s">>,
     <<"H", "o", "m", "e">>,
     <<"W", "e", "l", "c", "o", "m", "e", " ", "t", "o", " ", "t", "h", "e", " ", "c", "i", "t", "y">>}

\* how the items of a list are marked
ItemStyles == {"numbered", "lettered", "roman", "repeated", "bare"}

\* items in the longest list
MaxItems == 5

ItemTitle == <<" ", "B", "u", "d", "g", "e", "t">>

DigitText == <<"1", "2", "3", "4", "5", "6", "7", "8", "9">>

LetterText == <<"A", "b", "C", "d", "E", "f", "G", "h", "J">>

RomanText ==
    << <<"I">>, <<"I", "I">>, <<"i", "i", "i">>, <<"I", "V">>, <<"V">>, <<"V", "I">>,
       <<"V", "I", "I">>, <<"v", "i", "i", "i">>, <<"I", "X">> >>

\* the i-th line of a list in the given style
ItemLine(style, i) ==
    CASE style = "numbered" -> <<DigitText[i], ".">> \o ItemTitle
      [] style = "lettered" -> <<LetterText[i], ")">> \o ItemTitle
      [] style = "roman"    -> RomanText[i] \o <<".">> \o ItemTitle
      [] style = "repeated" -> <<"1", ".">> \o ItemTitle
      [] style = "bare"     -> <<DigitText[i], "]">>

ItemLists ==
    {<<>>} \cup {[i \in 1..k |-> ItemLine(style, i)] : style \in ItemStyles, k \in 1..MaxItems}

Headings ==
    {<<>>} \cup {<<l>> : l \in PhraseLines}
    \cup {h \in PhraseLines \X PhraseLines : h[1] # h[2]}

\* a line of n characters without any signal
LongLine(n) == [i \in 1..n |-> "x"]

\* texts whose first line fills the scanned prefix, or all but eight
\* characters of it, before a line with a phrase
LongTexts ==
    {LongLine(n) \o <<"\n">> \o l :
        n \in {scan_limit - 8, scan_limit},
        l \in {<<"C", "a", "l", "l", " ", "t", "o", " ", "O", "r", "d", "e", "r">>,
               <<"U", "p", "c", "o", "m", "i", "n", "g", " ", "m", "e", "e", "t", "i", "n", "g", "s">>}}

ClassifyTexts ==
    {JoinWith(h \o items, <<"\n">>) : h \in Headings, items \in ItemLists} \cup LongTexts

\* fetcher and discovery at rest, as the document-side sessions leave them
CrawlerIdle ==
    /\ FetcherInit
    /\ bypass_cache = FALSE
    /\ site = FetchSite
    /\ source_id = "other"
    /\ DiscoveryIdle
    /\ scored = None

ClassifyInit ==
    /\ CrawlerIdle
    /\ classified_text \in ClassifyTexts
    /\ classified_as = None
    /\ FingerprintIdle
    /\ EngineIdle
    /\ EventsIdle
    /\ WorkerIdle

\* the call DocumentClassifier.classify(classified_text)
Classify ==
    /\ classified_as = None
    /\ classified_as' = Some(classify(classified_text))
    /\ UNCHANGED <<classified_text, beside_classifier>>

SpecClassify == ClassifyInit /\ [][Classify]_vars

(***************************************************************************)
(* Properties of DocumentClassifier.classify, checked under SpecClassify.  *)
(***************************************************************************)
Classified == classified_as # None

\* the part of the text classify searches for phrases
ScannedPrefix == Take(lower(strip_nav_text(classified_text)), scan_limit)

HasPhrase == ContainsAny(ScannedPrefix, AGENDA_PHRASES)

\* C11: a text with a high-signal agenda phrase in the scanned prefix is
\* classified 'agenda', whatever else it holds.
C11_PhraseMeansAgenda ==
    (Classified /\ HasPhrase) => classified_as = Some("agenda")

\* C11: a text with an agenda phrase, a no-agenda indicator and a calendar
\* indicator was classified 'agenda'.
C11_PhraseBeatsIndicators ==
    /\ Classified
    /\ HasPhrase
    /\ ContainsAny(ScannedPrefix, no_agenda_indicators)
    /\ ContainsAny(ScannedPrefix, calendar_indicators)
    /\ count_item_markers(strip_nav_text(classified_text)) < 3
    /\ classified_as = Some("agenda")

\* C12: a text with five or more distinct item markers and no agenda phrase
\* is classified 'agenda', whatever indicators it holds.
C12_FiveMarkersMeanAgenda ==
    (Classified /\ ~HasPhrase /\ count_item_markers(strip_nav_text(classified_text)) >= 5)
        => classified_as = Some("agenda")

\* C12: a text with five item markers, no agenda phrase and a no-agenda
\* indicator was classified 'no-agenda-yet'.
C12_NoticeBeatsMarkers ==
    /\ Classified
    /\ ~HasPhrase
    /\ count_item_markers(strip_nav_text(classified_text)) >= 5
    /\ ContainsAny(ScannedPrefix, no_agenda_indicators)
    /\ classified_as = Some("no-agenda-yet")

(***************************************************************************)
(* ParsedDoc (deep_discovery.py, parser.py): the fingerprint of a text.    *)
(***************************************************************************)
\* the characters of the model in code point order, which is the order
\* sorted() compares strings by
CodePoints ==
    <<"\t", "\n", "\r", " ", "!", "#", "$", "%", "&", "'", "(", ")", "*", "+",
      ",", "-", ".", "/", "0", "1", "2", "3", "4", "5", "6", "7", "8", "9",
      ":", ";", "<", "=", ">", "?", "@", "A", "B", "C", "D", "E", "F", "G",
      "H", "I", "J", "K", "L", "M", "N", "O", "P", "Q", "R", "S", "T", "U",
      "V", "W", "X", "Y", "Z", "[", "]", "^", "_", "a", "b", "c", "d", "e",
      "f", "g", "h", "i", "j", "k", "l", "m", "n", "o", "p", "q", "r", "s",
      "t", "u", "v", "w", "x", "y", "z", "{", "|", "}", "~">>

ord(c) == CHOOSE i \in DOMAIN CodePoints : CodePoints[i] = c

\* s < t for strings
StrLess(s, t) ==
    LET differ == {i \in 1..Min2(Len(s), Len(t)) : s[i] # t[i]}
    IN  IF differ = {} THEN Len(s) < Len(t)
        ELSE ord(s[SetMin(differ)]) < ord(t[SetMin(differ)])

\* sorted(lines)
sorted(lines) ==
    LET n            == Len(lines)
        before(i, j) == StrLess(lines[i], lines[j]) \/ (lines[i] = lines[j] /\ i < j)
        rank(i)      == 1 + Cardinality({j \in 1..n : before(j, i)})
    IN  [k \in 1..n |-> lines[CHOOSE i \in 1..n : rank(i) = k]]

\* re.sub(r'\s+', ' ', line): every run of white space becomes one blank
collapse_whitespace(line) ==
    LET kept == {i \in 1..Len(line) :
                    line[i] \notin WhiteSpace \/ i = 1 \/ line[i - 1] \notin WhiteSpace}
    IN  [k \in 1..Cardinality(kept) |->
            IF line[KthOf(kept, k)] \in WhiteSpace THEN " " ELSE line[KthOf(kept, k)]]

\* lines of at most this many characters do not count for the fingerprint
short_line == 3

\* ParsedDoc._normalize_for_fingerprint
_normalize_for_fingerprint(text) ==
    LET lines   == Split(lower(text), "\n")
        cleaned == [i \in 1..Len(lines) |-> strip(collapse_whitespace(lines[i]))]
    IN  JoinWith(sorted(Filter(cleaned, LAMBDA l : Len(l) > short_line)), <<"\n">>)

\* the hexadecimal digits kept of a digest
fingerprint_length == 16

\* hashlib.sha256(content.encode()).hexdigest()[:n], taken as injective
hexdigest(content, n) == [digest_of |-> content, hex_chars |-> n]

\* ParsedDoc(text=text, fingerprint=fingerprint) after __post_init__; the
\* empty sequence is the empty string
ParsedDoc(text, fingerprint) ==
    [text        |-> text,
     fingerprint |-> IF fingerprint = <<>> /\ text # <<>>
                     THEN hexdigest(_normalize_for_fingerprint(text), fingerprint_length)
                     ELSE fingerprint]


(***************************************************************************)
(* The fingerprint alone: a text is changed up to MaxEdits times in ways   *)
(* that keep its lines as sets of words, then both texts are parsed.       *)
(***************************************************************************)
\* changes made to a text
MaxEdits == 2

FingerprintTexts ==
    {<<>>,
     <<"A", "g", "e", "n", "d", "a", " ", "I", "t", "e", "m", " ", "1", "\n",
       "a", "g", "e", "n", "d", "a", " ", " ", " ", "i", "t", "e", "m", " ", "1">>,
     <<"R", "o", "l", "l", " ", "c", "a", "l", "l", "\n", " ", "a", "b", "\t", "\n",
       "B", "u", "d", "g", "e", "t">>}

\* the characters an edit may add to a line
Blanks == {" ", "\t"}

\* s with c put in before position i
InsertAt(s, i, c) == SubSeq(s, 1, i - 1) \o <<c>> \o SubSeq(s, i, Len(s))

\* s without the character at position i
RemoveAt(s, i) == SubSeq(s, 1, i - 1) \o SubSeq(s, i + 1, Len(s))

\* a blank put in before position i lands at the start or the end of a
\* line, or next to white space of the line
BlankFitsAt(s, i) ==
    \/ IF i = 1 THEN TRUE ELSE s[i - 1] \in WhiteSpace
    \/ IF i = Len(s) + 1 THEN TRUE ELSE s[i] \in WhiteSpace

\* the character at position i is a blank at the start or the end of a
\* line, or next to another blank of the line
BlankSpareAt(s, i) ==
    /\ s[i] \in Blanks
    /\ \/ IF i = 1 THEN TRUE ELSE s[i - 1] \in WhiteSpace
       \/ IF i = Len(s) THEN TRUE ELSE s[i + 1] \in WhiteSpace

\* the text with lines i and i + 1 exchanged
SwapLines(text, i) ==
    LET lines == Split(text, "\n")
    IN  JoinWith([k \in 1..Len(lines) |->
                    IF k = i THEN lines[i + 1] ELSE IF k = i + 1 THEN lines[i] ELSE lines[k]],
                 <<"\n">>)

\* the character with its case changed
OtherCase(c) ==
    IF c \in Letters THEN LowerToUpper[c]
    ELSE IF c \in DOMAIN UpperToLower THEN UpperToLower[c]
    ELSE c

FingerprintInit ==
    /\ CrawlerIdle
    /\ ClassifierIdle
    /\ EngineIdle
    /\ EventsIdle
    /\ WorkerIdle
    /\ original_text \in FingerprintTexts
    /\ variant_text = original_text
    /\ edits = 0
    /\ parsed = None

\* what every edit does besides changing the variant
Edited ==
    /\ parsed = None
    /\ edits < MaxEdits
    /\ variant_text' # variant_text
    /\ edits' = edits + 1
    /\ UNCHANGED <<original_text, parsed, beside_fingerprint>>

ReorderLines ==
    /\ \E i \in 1..Cardinality(Positions(variant_text, "\n")) :
            variant_text' = SwapLines(variant_text, i)
    /\ Edited

ChangeCase ==
    /\ \E i \in 1..Len(variant_text) :
            variant_text' = [variant_text EXCEPT ![i] = OtherCase(@)]
    /\ Edited

AddWhiteSpace ==
    /\ \E i \in 1..(Len(variant_text) + 1), c \in Blanks :
            /\ BlankFitsAt(variant_text, i)
            /\ variant_text' = InsertAt(variant_text, i, c)
    /\ Edited

RemoveWhiteSpace ==
    /\ \E i \in 1..Len(variant_text) :
            /\ BlankSpareAt(variant_text, i)
            /\ variant_text' = RemoveAt(variant_text, i)
    /\ Edited

\* ParsedDoc(text=...) for both texts
Parse ==
    /\ parsed = None
    /\ parsed' = Some([original |-> ParsedDoc(original_text, <<>>),
                       variant  |-> ParsedDoc(variant_text, <<>>)])
    /\ UNCHANGED <<original_text, variant_text, edits, beside_fingerprint>>

FingerprintNext == ReorderLines \/ ChangeCase \/ AddWhiteSpace \/ RemoveWhiteSpace \/ Parse

SpecFingerprint == FingerprintInit /\ [][FingerprintNext]_vars

(***************************************************************************)
(* The fingerprint and the lines of a text: the variant gains a copy of    *)
(* one of its lines, a short line or a new line, or loses a line, then     *)
(* both texts are parsed.                                                  *)
(***************************************************************************)
\* lines of at most three characters once normalized
ShortLines ==
    {<<>>, <<"a", "b">>, <<" ", "1", ".", " ">>, <<"a", "b", "c">>}

\* lines of more than three characters
NewLines ==
    {<<"N", "e", "w", " ", "i", "t", "e", "m">>,
     <<"R", "O", "L", "L", " ", " ", "c", "a", "l", "l">>}

\* the line as _normalize_for_fingerprint sees it
cleaned_line(line) == strip(collapse_whitespace(lower(line)))

\* the text with one more line at its end
WithLine(text, line) == text \o <<"\n">> \o line

RepeatLine ==
    /\ \E i \in 1..Len(Split(variant_text, "\n")) :
            /\ Len(cleaned_line(Split(variant_text, "\n")[i])) > short_line
            /\ variant_text' = WithLine(variant_text, Split(variant_text, "\n")[i])
    /\ Edited

AddShortLine ==
    /\ \E line \in ShortLines : variant_text' = WithLine(variant_text, line)
    /\ Edited

AddLine ==
    /\ \E line \in NewLines : variant_text' = WithLine(variant_text, line)
    /\ Edited

RemoveLine ==
    /\ \E i \in 1..Len(Split(variant_text, "\n")) :
            variant_text' = JoinWith(SubSeqAt(Split(variant_text, "\n"),
                                              (1..Len(Split(variant_text, "\n"))) \ {i}),
                                     <<"\n">>)
    /\ Edited

LinesNext == RepeatLine \/ AddShortLine \/ AddLine \/ RemoveLine \/ ReorderLines \/ Parse

SpecLines == FingerprintInit /\ [][LinesNext]_vars

(***************************************************************************)
(* Properties of the fingerprint, checked under SpecFingerprint.           *)
(***************************************************************************)
\* the value is the first 16 hexadecimal digits of a digest
IsDigest16(fp) == fp # <<>> /\ fp.hex_chars = 16

\* C13: two texts that differ only in the order of their lines, in letter
\* case and in the amount of white space in or around lines have the same
\* fingerprint, which is 16 hexadecimal digits of a digest.
C13_SameFingerprint ==
    parsed # None =>
        /\ parsed[1].variant.fingerprint = parsed[1].original.fingerprint
        /\ IsDigest16(parsed[1].original.fingerprint)

\* C13: the empty text keeps the empty fingerprint, the same text with
\* blanks added gets the digest of the empty normalized text.
C13_EmptyTextNoFingerprint ==
    /\ parsed # None
    /\ original_text = <<>>
    /\ variant_text \in {<<" ">>, <<"\t", " ">>}
    /\ parsed[1].original.fingerprint = <<>>
    /\ parsed[1].variant.fingerprint = hexdigest(<<>>, fingerprint_length)

(***************************************************************************)
(* ProductionPipeline._process_source and the diff engine it calls.  The   *)
(* pipeline imports ProductionDiff from src.diff, which does not define    *)
(* it: compare is written here from section 4.6 of the specification.      *)
(***************************************************************************)
\* characters of the new text kept as the baseline sample
sample_limit == 5000

\* added and removed lines kept in a ChangeSummary
line_cap == 20

\* a surviving line longer than this is a real change
noise_length == 20

\* diff lines shorter than this after trimming are discarded
min_diff_line == 3

IsDigits(s) == s # <<>> /\ \A i \in 1..Len(s) : s[i] \in Digits

\* 2024-01-15 or 01/15/2024
IsDate(s) ==
    /\ Len(s) = 10
    /\ \/ s[5] = "-" /\ s[8] = "-" /\ \A i \in {1, 2, 3, 4, 6, 7, 9, 10} : s[i] \in Digits
       \/ s[3] = "/" /\ s[6] = "/" /\ \A i \in {1, 2, 4, 5, 7, 8, 9, 10} : s[i] \in Digits

\* 9:30 or 10:30
IsClock(s) ==
    /\ Len(s) \in {4, 5}
    /\ s[Len(s) - 2] = ":"
    /\ \A i \in (1..Len(s)) \ {Len(s) - 2} : s[i] \in Digits

\* the words of a line
Words(line) == Filter(Split(line, " "), LAMBDA w : w # <<>>)

\* the length of a line after trimming
TrimmedLen(line) ==
    LET n == Len(line)
    IN  IF \A i \in 1..n : line[i] \in WhiteSpace THEN 0
        ELSE LET first == CHOOSE i \in 1..n :
                            line[i] \notin WhiteSpace /\ \A j \in 1..(i - 1) : line[j] \in WhiteSpace
                 back  == CHOOSE k \in 0..(n - 1) :
                            line[n - k] \notin WhiteSpace /\ \A j \in 0..(k - 1) : line[n - j] \in WhiteSpace
             IN  n - back - first + 1

Meridiems == {<<"a", "m">>, <<"p", "m">>}

stamp_words == <<<<"p", "r", "i", "n", "t", "e", "d", " ", "o", "n">>, <<"l", "a", "s", "t", " ", "u", "p", "d", "a", "t", "e", "d">>, <<"g", "e", "n", "e", "r", "a", "t", "e", "d">>>>

\* a faulty variant of is_noise: only bare dates and bare clock times
bare_noise(line) ==
    LET w == Words(lower(line))
    IN  Len(w) = 1 /\ (IsDate(w[1]) \/ IsClock(w[1]))

\* the noise patterns: a timestamp, a bare date, a bare clock time,
\* "page X of Y"
is_noise(line) ==
    LET w == Words(lower(line))
    IN  \/ /\ \E i \in 1..Len(w) : IsDate(w[i]) \/ IsClock(w[i])
           /\ ContainsAny(lower(line), stamp_words)
        \/ Len(w) = 1 /\ IsDate(w[1])
        \/ Len(w) = 1 /\ IsClock(w[1])
        \/ Len(w) = 2 /\ IsClock(w[1]) /\ w[2] \in Meridiems
        \/ /\ Len(w) = 4
           /\ w[1] = <<"p", "a", "g", "e">> /\ IsDigits(w[2]) /\ w[3] = <<"o", "f">> /\ IsDigits(w[4])

\* the lines of old that are removed and the lines of new that are added
\* by an edit script from old to new, each in text order
RECURSIVE LineDiff(_, _)
LineDiff(old, new) ==
    IF old = <<>> THEN [removed |-> <<>>, added |-> new]
    ELSE IF new = <<>> THEN [removed |-> old, added |-> <<>>]
    ELSE IF Head(old) = Head(new) THEN LineDiff(Tail(old), Tail(new))
    ELSE IF Head(new) \notin Range(old)
         THEN [LineDiff(old, Tail(new)) EXCEPT !.added = <<Head(new)>> \o @]
         ELSE [LineDiff(Tail(old), new) EXCEPT !.removed = <<Head(old)>> \o @]

\* the diff lines left by the noise filter
Surviving(lines) ==
    Filter(lines, LAMBDA l : ~is_noise(l) /\ TrimmedLen(l) >= min_diff_line)

\* min(100, |newLen - oldLen| / oldLen * 100), in whole percent; 100 for
\* text added to an empty baseline
percent_changed(old_len, new_len) ==
    IF old_len = 0 THEN (IF new_len = 0 THEN 0 ELSE 100)
    ELSE Min2(100, ((IF new_len >= old_len THEN new_len - old_len ELSE old_len - new_len) * 100) \div old_len)

\* a faulty variant of FingerprintRecord: the whole text is kept
untruncated_record(text, fingerprint) == [fingerprint |-> fingerprint, sample |-> text]

\* FingerprintRecord without its updatedAt
FingerprintRecord(text, fingerprint) ==
    [fingerprint |-> fingerprint, sample |-> Take(text, sample_limit)]

\* the ChangeSummary made from the surviving lines of a line diff (no
\* lines where none was computed)
ChangeSummary(removed, added, old_text, new_text, old_fingerprint, new_fingerprint) ==
    [changed |-> (\E l \in Range(removed) \cup Range(added) : Len(l) > noise_length),
     fingerprint_changed |-> old_fingerprint # Some(new_fingerprint),
     added_lines |-> Take(added, line_cap), removed_lines |-> Take(removed, line_cap),
     percent_changed |-> percent_changed(Len(old_text), Len(new_text)),
     noise_only |-> ~(\E l \in Range(removed) \cup Range(added) : Len(l) > noise_length),
     old_fingerprint |-> old_fingerprint,
     new_fingerprint |-> new_fingerprint]

\* the outcome of a comparison: whether a line diff was computed, the
\* lines that survived the noise filter, the record persisted as the new
\* baseline, the ChangeSummary
Outcome(line_diff, removed, added, old_text, new_text, old_fingerprint, new_fingerprint) ==
    [line_diff |-> line_diff, removed |-> removed, added |-> added,
     record |-> FingerprintRecord(new_text, new_fingerprint),
     summary |-> ChangeSummary(removed, added, old_text, new_text, old_fingerprint, new_fingerprint)]

\* the outcome of the branch that computes the line diff
Compared(diff, old_text, new_text, old_fingerprint, new_fingerprint) ==
    Outcome(TRUE, Surviving(diff.removed), Surviving(diff.added),
            old_text, new_text, old_fingerprint, new_fingerprint)

\* compare(sourceId, newText, newFingerprint) on the record stored for the
\* source (None: no baseline yet, the stored text is empty)
compare(stored, new_text, new_fingerprint) ==
    IF stored = None
    THEN Compared(LineDiff(<<>>, Split(new_text, "\n")), <<>>, new_text, None, new_fingerprint)
    ELSE IF stored[1].fingerprint = new_fingerprint
    THEN Outcome(FALSE, <<>>, <<>>, stored[1].sample, new_text,
                 Some(stored[1].fingerprint), new_fingerprint)
    ELSE Compared(LineDiff(Split(stored[1].sample, "\n"), Split(new_text, "\n")),
                  stored[1].sample, new_text, Some(stored[1].fingerprint), new_fingerprint)

\* a faulty variant of _fingerprint: only the first characters are hashed
prefix_fingerprint(text) == hexdigest(Take(text, 11), fingerprint_length)

\* ProductionPipeline._fingerprint
_fingerprint(text) == hexdigest(text, fingerprint_length)

\* "\n\n".join(all_texts)
combined_text(all_texts) == JoinWith(all_texts, <<"\n", "\n">>)

(***************************************************************************)
(* The pipeline processing sources one after another.                      *)
(***************************************************************************)
\* sources processed
MaxProcessed == 2

PipelineSources == {"city_council", "metro_board"}

NoticeDay15 ==
    <<"A", "g", "e", "n", "d", "a", "\n", "I", "t", "e", "m", " ", "1", "\n",
      "P", "r", "i", "n", "t", "e", "d", " ", "o", "n", " ", "2", "0", "2",
      "4", "-", "0", "1", "-", "1", "5">>

NoticeDay16 ==
    <<"A", "g", "e", "n", "d", "a", "\n", "I", "t", "e", "m", " ", "1", "\n",
      "P", "r", "i", "n", "t", "e", "d", " ", "o", "n", " ", "2", "0", "2",
      "4", "-", "0", "1", "-", "1", "6">>

Hello ==
    <<"H", "e", "l", "l", "o", " ", "w", "o", "r", "l", "d">>

HelloMore ==
    <<"H", "e", "l", "l", "o", " ", "w", "o", "r", "l", "d", "!", " ", "N",
      "e", "w", " ", "a", "g", "e", "n", "d", "a", " ", "i", "t", "e", "m",
      " ", "a", "d", "d", "e", "d", ".">>

\* two parsed texts of one source: the second has a new short item, a
\* page number, a clock time, a date and a very short line
NoticeHead ==
    <<"A", "g", "e", "n", "d", "a", "\n", "I", "t", "e", "m", " ", "1">>

NoticeTail ==
    <<"I", "t", "e", "m", " ", "2", "\n", "P", "a", "g", "e", " ", "1", " ", "o", "f", " ", "2", "\n", "1", "0", ":", "3", "0", " ", "A", "M", "\n">> \o
    <<"2", "0", "2", "4", "-", "0", "1", "-", "1", "5", "\n", "o", "k", "\n">> \o
    <<"P", "r", "i", "n", "t", "e", "d", " ", "o", "n", " ", "2", "0", "2", "4", "-", "0", "1", "-", "1", "5">>

ManyRows ==
    <<"H", "e", "l", "l", "o", " ", "w", "o", "r", "l", "d", "\n", "r", "o",
      "w", " ", "a", "\n", "r", "o", "w", " ", "b", "\n", "r", "o", "w", " ",
      "c", "\n", "r", "o", "w", " ", "d", "\n", "r", "o", "w", " ", "e",
      "\n", "r", "o", "w", " ", "f", "\n", "r", "o", "w", " ", "g", "\n",
      "r", "o", "w", " ", "h", "\n", "r", "o", "w", " ", "i", "\n", "r", "o",
      "w", " ", "j", "\n", "r", "o", "w", " ", "k", "\n", "r", "o", "w", " ",
      "l", "\n", "r", "o", "w", " ", "m", "\n", "r", "o", "w", " ", "n",
      "\n", "r", "o", "w", " ", "o", "\n", "r", "o", "w", " ", "p", "\n",
      "r", "o", "w", " ", "q", "\n", "r", "o", "w", " ", "r", "\n", "r", "o",
      "w", " ", "s", "\n", "r", "o", "w", " ", "t", "\n", "r", "o", "w", " ",
      "u", "\n">> \o LongLine(sample_limit)

\* the texts of the valid parses of a source's URLs
ParsedTexts ==
    {<<NoticeDay15>>, <<NoticeDay16>>, <<Hello>>, <<HelloMore>>, <<NoticeHead, NoticeTail>>,
     <<ManyRows>>}

\* what the state directory holds for a source when the pipeline starts:
\* nothing, or the record of an earlier run
StoredRecords ==
    {None, Some(FingerprintRecord(Hello, _fingerprint(Hello)))}

PipelineInit ==
    /\ CrawlerIdle
    /\ ClassifierIdle
    /\ FingerprintIdle
    /\ EventsIdle
    /\ WorkerIdle
    /\ results = [sources_checked |-> 0, sources_failed |-> 0, changes_detected |-> 0]
    /\ \E stored \in StoredRecords :
            fingerprint_store = [sid \in PipelineSources |->
                                    IF sid = "city_council" THEN stored ELSE None]
    /\ prev_compare = NoCompare
    /\ last_compare = NoCompare

\* _process_source after the call of compare
process_source(sid, text, fp, outcome) ==
    /\ fingerprint_store' = [fingerprint_store EXCEPT ![sid] = Some(outcome.record)]
    /\ prev_compare' = last_compare
    /\ last_compare' = [source |-> sid, text |-> text, fingerprint |-> fp,
                        stored |-> fingerprint_store, outcome |-> outcome]
    /\ results' = [results EXCEPT !.sources_checked = @ + 1,
                                  !.changes_detected = IF outcome.summary.changed THEN @ + 1 ELSE @]

\* _process_source from the combined text on
process_combined(sid, text, fp) ==
    process_source(sid, text, fp, compare(fingerprint_store[sid], text, fp))

process_texts(sid, text) == process_combined(sid, text, _fingerprint(text))

\* _process_source(source) where at least one URL gave a valid parse
ProcessSource ==
    /\ results.sources_checked < MaxProcessed
    /\ \E sid \in PipelineSources, all_texts \in ParsedTexts :
            process_texts(sid, combined_text(all_texts))
    /\ UNCHANGED beside_engine

\* _process_source(source) where no URL gave a valid parse
ProcessNoContent ==
    /\ results.sources_checked < MaxProcessed
    /\ results' = [results EXCEPT !.sources_checked = @ + 1, !.sources_failed = @ + 1]
    /\ UNCHANGED <<fingerprint_store, prev_compare, last_compare, beside_engine>>

PipelineNext == ProcessSource \/ ProcessNoContent

SpecPipeline == PipelineInit /\ [][PipelineNext]_vars

(***************************************************************************)
(* Properties of the change detection, checked under SpecPipeline.         *)
(***************************************************************************)
\* compare has been called
Compares == last_compare.source # "none"

\* the last two calls were for the same source with the same text
SameTwice ==
    /\ prev_compare.source # "none"
    /\ last_compare.source = prev_compare.source
    /\ last_compare.text = prev_compare.text

\* the record that was stored for the call's source when the call was made
StoredFor(call) == call.stored[call.source]

\* the call met a baseline with the fingerprint it was given
MetSameFingerprint(call) ==
    StoredFor(call) # None /\ StoredFor(call)[1].fingerprint = call.fingerprint

\* the lines of the call's diff that survived the noise filter
SurvivingLines(call) == Range(call.outcome.removed) \cup Range(call.outcome.added)

C15_BaselineAdvances ==
    Compares =>
        /\ fingerprint_store[last_compare.source] =
                Some([fingerprint |-> last_compare.fingerprint,
                      sample |-> Take(last_compare.text, sample_limit)])
        /\ \A sid \in PipelineSources \ {last_compare.source} :
                fingerprint_store[sid] = last_compare.stored[sid]
        /\ (/\ prev_compare.source = last_compare.source
            /\ prev_compare.fingerprint = last_compare.fingerprint) =>
                ~last_compare.outcome.line_diff

\* C15: a text longer than the sample is compared and judged changed while
\* another source has a record; a cut copy of the text is stored.
C15_LongTextCut ==
    /\ Compares
    /\ last_compare.outcome.summary.changed
    /\ Len(last_compare.text) > sample_limit
    /\ Len(fingerprint_store[last_compare.source][1].sample) = sample_limit
    /\ \E sid \in PipelineSources \ {last_compare.source} : fingerprint_store[sid] # None

\* the baseline and the new text differ only in the date of the
\* "Printed on" line
PrintedOnRefetch ==
    /\ Compares
    /\ StoredFor(last_compare) # None
    /\ StoredFor(last_compare)[1].sample = NoticeDay15
    /\ last_compare.text = NoticeDay16

\* C16: in every ChangeSummary noiseOnly is true exactly when no surviving
\* line is longer than noise_length, changed is true exactly when noiseOnly
\* is false and a line survived, the two are never both true, and the
\* re-fetch with another "Printed on" date is noise only and not changed.
C16_NoiseOnlyAndChanged ==
    Compares =>
        /\ last_compare.outcome.summary.noise_only <=>
                ~(\E l \in SurvivingLines(last_compare) : Len(l) > noise_length)
        /\ last_compare.outcome.summary.changed <=>
                (~last_compare.outcome.summary.noise_only /\ SurvivingLines(last_compare) # {})
        /\ ~(last_compare.outcome.summary.changed /\ last_compare.outcome.summary.noise_only)
        /\ PrintedOnRefetch =>
                ~last_compare.outcome.summary.changed /\ last_compare.outcome.summary.noise_only

\* C16: the "Printed on" re-fetch: the fingerprint changed, a line diff
\* was computed, no line survived, the summary is noise only.
C16_PrintedOnIsNoise ==
    /\ PrintedOnRefetch
    /\ last_compare.outcome.line_diff
    /\ last_compare.outcome.summary.fingerprint_changed
    /\ SurvivingLines(last_compare) = {}
    /\ last_compare.outcome.summary.noise_only
    /\ ~last_compare.outcome.summary.changed

(***************************************************************************)
(* diff.py: ChangeEvent and DiffWorker.  change_type, item_id, title and   *)
(* attachment urls are sequences of characters, the other fields are       *)
(* values that are only compared.  A dict of an attachment has the keys    *)
(* url and sha256, each present (Some) or absent (None); the attachment    *)
(* argument is None or Some(dict).                                         *)
(***************************************************************************)
\* hexadecimal digits kept of the digest of an event
event_id_length == 16

\* the dict {}
EmptyDict == [url |-> None, sha256 |-> None]

\* dict.get(key, default) for the keys of an attachment
get_url(dict) == IF dict.url = None THEN <<>> ELSE dict.url[1]

get_sha256(dict) == dict.sha256

\* `if self.attachment`: not None and not the empty dict
is_truthy(attachment) == attachment # None /\ attachment[1] # EmptyDict

\* the string that is hashed
event_content(change_type, item_id, title, attachment) ==
    change_type \o <<":">> \o item_id \o <<":">> \o title
        \o (IF is_truthy(attachment) THEN <<":">> \o get_url(attachment[1]) ELSE <<>>)

\* ChangeEvent._generate_event_id
_generate_event_id(change_type, item_id, title, attachment) ==
    hexdigest(event_content(change_type, item_id, title, attachment), event_id_length)

\* ChangeEvent(...) made at time clock, as to_dict() gives it
ChangeEvent(change_type, item_id, source, title, meeting_datetime, attachment, source_url, clock) ==
    [event_id |-> _generate_event_id(change_type, item_id, title, attachment),
     change_type |-> change_type,
     item_id |-> item_id,
     source |-> source,
     title |-> title,
     meeting_datetime |-> meeting_datetime,
     attachment |-> attachment,
     source_url |-> source_url,
     detected_at |-> clock]

NEW_ITEM == <<"n", "e", "w", "_", "i", "t", "e", "m">>

REMOVED_ITEM == <<"r", "e", "m", "o", "v", "e", "d", "_", "i", "t", "e", "m">>

MEETING_TIME_CHANGED == <<"m", "e", "e", "t", "i", "n", "g", "_", "t", "i", "m", "e", "_", "c", "h", "a", "n", "g", "e", "d">>

ATTACHMENT_ADDED == <<"a", "t", "t", "a", "c", "h", "m", "e", "n", "t", "_", "a", "d", "d", "e", "d">>

ATTACHMENT_CHANGED == <<"a", "t", "t", "a", "c", "h", "m", "e", "n", "t", "_", "c", "h", "a", "n", "g", "e", "d">>

\* {a.get("url", ""): a for a in attachments}: the last dict of each url,
\* at the place of the first
RECURSIVE by_url(_)
by_url(attachments) ==
    IF attachments = <<>> THEN <<>>
    ELSE LET head == by_url(SubSeq(attachments, 1, Len(attachments) - 1))
             a    == attachments[Len(attachments)]
         IN  IF \E i \in 1..Len(head) : get_url(head[i]) = get_url(a)
             THEN [i \in 1..Len(head) |-> IF get_url(head[i]) = get_url(a) THEN a ELSE head[i]]
             ELSE Append(head, a)

\* the event of an item for a change type and attachment
item_event(change_type, item, attachment, clock) ==
    ChangeEvent(change_type, item.item_id, item.source, item.title, item.meeting_datetime,
                attachment, item.source_url, clock)

\* the dict of old_attachments with the url of a
old_attachment(old_attachments, a) ==
    LET i == CHOOSE i \in 1..Len(old_attachments) : get_url(old_attachments[i]) = get_url(a)
    IN  old_attachments[i]

has_url(old_attachments, a) ==
    \E i \in 1..Len(old_attachments) : get_url(old_attachments[i]) = get_url(a)

\* the events of one change type for the given attachments of an item
attachment_events(change_type, attachments, item, clock) ==
    [i \in 1..Len(attachments) |-> item_event(change_type, item, Some(attachments[i]), clock)]

\* _detect_item_changes on the two attachment maps: the time change, the
\* new attachments, the changed attachments
detected_changes(old_attachments, new_attachments, old, new, clock) ==
    (IF old.meeting_datetime # new.meeting_datetime /\ new.meeting_datetime # None
     THEN <<item_event(MEETING_TIME_CHANGED, new, None, clock)>>
     ELSE <<>>)
    \o attachment_events(ATTACHMENT_ADDED,
                         Filter(new_attachments, LAMBDA a : ~has_url(old_attachments, a)),
                         new, clock)
    \o attachment_events(ATTACHMENT_CHANGED,
                         Filter(new_attachments, LAMBDA a :
                                    /\ has_url(old_attachments, a)
                                    /\ get_sha256(a) # get_sha256(old_attachment(old_attachments, a))),
                         new, clock)

\* DiffWorker._detect_item_changes
_detect_item_changes(old, new, clock) ==
    detected_changes(by_url(old.attachments), by_url(new.attachments), old, new, clock)

\* {item["item_id"]: item for item in items}
RECURSIVE by_item_id(_)
by_item_id(items) ==
    IF items = <<>> THEN <<>>
    ELSE LET head == by_item_id(SubSeq(items, 1, Len(items) - 1))
             item == items[Len(items)]
         IN  IF \E i \in 1..Len(head) : head[i].item_id = item.item_id
             THEN [i \in 1..Len(head) |-> IF head[i].item_id = item.item_id THEN item ELSE head[i]]
             ELSE Append(head, item)

has_item(item_map, item_id) == \E i \in 1..Len(item_map) : item_map[i].item_id = item_id

item_of(item_map, item_id) ==
    item_map[CHOOSE i \in 1..Len(item_map) : item_map[i].item_id = item_id]

\* the events diff() makes, in the order it makes them: for each current
\* item its new_item event or its item changes, then the removed items
RECURSIVE events_of_current(_, _, _)
events_of_current(current_map, last_map, clock) ==
    IF current_map = <<>> THEN <<>>
    ELSE (IF ~has_item(last_map, Head(current_map).item_id)
          THEN <<item_event(NEW_ITEM, Head(current_map), None, clock)>>
          ELSE _detect_item_changes(item_of(last_map, Head(current_map).item_id),
                                    Head(current_map), clock))
         \o events_of_current(Tail(current_map), last_map, clock)

events_of_removed(current_map, last_map, clock) ==
    LET gone == Filter(last_map, LAMBDA item : ~has_item(current_map, item.item_id))
    IN  [i \in 1..Len(gone) |-> item_event(REMOVED_ITEM, gone[i], None, clock)]

\* a faulty variant of append_unsent: an event is appended whether or not
\* its id is in sent_events
RECURSIVE append_all(_, _, _)
append_all(events, changes, sent_events) ==
    IF events = <<>> THEN [changes |-> changes, sent_events |-> sent_events]
    ELSE append_all(Tail(events), Append(changes, Head(events)),
                    sent_events \cup {Head(events).event_id})

\* `if event.event_id not in sent_events: changes.append(...);
\* sent_events.add(...)` for the events in turn
RECURSIVE append_unsent(_, _, _)
append_unsent(events, changes, sent_events) ==
    IF events = <<>> THEN [changes |-> changes, sent_events |-> sent_events]
    ELSE IF Head(events).event_id \in sent_events
    THEN append_unsent(Tail(events), changes, sent_events)
    ELSE append_unsent(Tail(events), Append(changes, Head(events)),
                       sent_events \cup {Head(events).event_id})

\* sent_events.json: missing, or the list of ids a run saved
MissingFile == [kind |-> "missing", ids |-> {}]

ListFile(ids) == [kind |-> "list", ids |-> ids]

\* DiffWorker._load_sent_events: the ids of the list; the empty set when the
\* file is missing (and when reading it fails)
_load_sent_events(file) == IF file.kind = "list" THEN file.ids ELSE {}

\* DiffWorker._save_sent_events
_save_sent_events(events) == ListFile(events)

\* the body of diff() once current_items.json is found
diff(current_map, last_map, sent_events, clock) ==
    append_unsent(events_of_current(current_map, last_map, clock)
                    \o events_of_removed(current_map, last_map, clock),
                  <<>>, sent_events)

(***************************************************************************)
(* ChangeEvents made one after another.                                    *)
(***************************************************************************)
\* events made
MaxEvents == 2

EventTypes == {NEW_ITEM, ATTACHMENT_ADDED}

EventItemIds == {<<"a">>, <<"a", ":", "b">>}

EventTitles == {<<"c">>, <<"b", ":", "c">>, <<"c", ":", "u">>}

EventSources == {"county_bos", "city_council"}

EventTimes == {None, Some("2024-01-15T10:00")}

EventAttachments ==
    {None, Some(EmptyDict),
     Some([url |-> Some(<<"u">>), sha256 |-> Some("s1")]),
     Some([url |-> Some(<<>>), sha256 |-> Some("s1")]),
     Some([url |-> None, sha256 |-> Some("s1")])}

EventsInit ==
    /\ CrawlerIdle
    /\ ClassifierIdle
    /\ FingerprintIdle
    /\ EngineIdle
    /\ WorkerIdle
    /\ event_log = <<>>
    /\ event_clock = 0

NewEvent ==
    /\ Len(event_log) < MaxEvents
    /\ \E change_type \in EventTypes, item_id \in EventItemIds, source \in EventSources,
          title \in EventTitles, meeting_datetime \in EventTimes, attachment \in EventAttachments :
            event_log' = Append(event_log,
                                ChangeEvent(change_type, item_id, source, title, meeting_datetime,
                                            attachment, None, event_clock))
    /\ event_clock' = event_clock + 1
    /\ UNCHANGED <<worker_vars, beside_diff>>

SpecEvents == EventsInit /\ [][NewEvent]_vars

(***************************************************************************)
(* DiffWorker runs, with the item files written between the runs.          *)
(***************************************************************************)
\* runs of diff()
MaxDiffs == 2

Attachment(sha) == [url |-> Some(<<"h", "t", "t", "p", "s", ":", "/", "/", "x", ".", "g", "o", "v", "/", "a", ".", "p", "d", "f">>), sha256 |-> Some(sha)]

Item(item_id, title, meeting_datetime, attachments) ==
    [item_id |-> item_id, source |-> "county_bos", title |-> title,
     meeting_datetime |-> meeting_datetime, source_url |-> None, attachments |-> attachments]

Hearing(meeting_datetime, attachments) ==
    Item(<<"i", "t", "e", "m", "1">>, <<"H", "e", "a", "r", "i", "n", "g">>, meeting_datetime, attachments)

\* the contents of an item file
ItemFiles ==
    {<<>>,
     <<Hearing(Some("2024-01-15T10:00"), <<>>)>>,
     <<Hearing(Some("2024-01-16T10:00"), <<Attachment("s1")>>)>>,
     <<Hearing(Some("2024-01-16T10:00"), <<Attachment("s2")>>)>>,
     <<Item(<<"a", ":", "b">>, <<"c">>, None, <<>>), Item(<<"a">>, <<"b", ":", "c">>, None, <<>>)>>}

WorkerInit ==
    /\ CrawlerIdle
    /\ ClassifierIdle
    /\ FingerprintIdle
    /\ EngineIdle
    /\ EventsIdle
    /\ current_items = None
    /\ last_items = None
    /\ sent_events_file = MissingFile
    /\ changes_file = None
    /\ emitted_before = {}
    /\ recorded_before = {}
    /\ diff_inputs = <<>>
    /\ diffs = 0

\* the parse step writes current_items.json
WriteCurrentItems ==
    /\ \E items \in ItemFiles : current_items' = Some(items)
    /\ current_items' # current_items
    /\ UNCHANGED <<last_items, sent_events_file, changes_file, emitted_before, recorded_before, diff_inputs, diffs>>
    /\ UNCHANGED <<event_vars, beside_diff>>

\* DiffWorker.update_last_state
update_last_state ==
    /\ current_items # None
    /\ last_items' = current_items
    /\ last_items' # last_items
    /\ UNCHANGED <<current_items, sent_events_file, changes_file, emitted_before, recorded_before, diff_inputs, diffs>>
    /\ UNCHANGED <<event_vars, beside_diff>>

\* diff() with the outcome of its loops
finish_diff(outcome) ==
    /\ changes_file' = Some(outcome.changes)
    /\ sent_events_file' = _save_sent_events(outcome.sent_events)

\* DiffWorker.diff() where current_items.json exists
Diff ==
    /\ diffs < MaxDiffs
    /\ current_items # None
    /\ finish_diff(diff(by_item_id(current_items[1]),
                        by_item_id(IF last_items = None THEN <<>> ELSE last_items[1]),
                        _load_sent_events(sent_events_file), diffs))
    /\ emitted_before' = emitted_before \cup
            (IF changes_file = None THEN {} ELSE {changes_file[1][i].event_id : i \in 1..Len(changes_file[1])})
    /\ recorded_before' = recorded_before \cup sent_events_file.ids
    /\ diff_inputs' = Append(diff_inputs, [last |-> IF last_items = None THEN <<>> ELSE last_items[1],
                                            current |-> current_items[1]])
    /\ diffs' = diffs + 1
    /\ UNCHANGED <<current_items, last_items, event_vars, beside_diff>>

\* DiffWorker.diff() where current_items.json is missing
DiffNoItems ==
    /\ diffs < MaxDiffs
    /\ current_items = None
    /\ diffs' = diffs + 1
    /\ UNCHANGED <<current_items, last_items, sent_events_file, changes_file, emitted_before, recorded_before, diff_inputs>>
    /\ UNCHANGED <<event_vars, beside_diff>>

WorkerNext == WriteCurrentItems \/ update_last_state \/ Diff \/ DiffNoItems

SpecWorker == WorkerInit /\ [][WorkerNext]_vars

(***************************************************************************)
(* Properties of the change events, checked under SpecEvents and           *)
(* SpecWorker.                                                             *)
(***************************************************************************)
\* the url of the event's attachment as _generate_event_id reads it (None:
\* the event has no attachment)
AttachmentUrl(event) ==
    IF event.attachment = None THEN None ELSE Some(get_url(event.attachment[1]))

\* the four fields the event id is derived from
FourFields(event) ==
    <<event.change_type, event.item_id, event.title, AttachmentUrl(event)>>

\* C17: two events have the same event_id exactly when they are equal in
\* change_type, item_id, title and attachment url, whatever their source,
\* meeting_datetime and creation time.
C17_EventIdIdentifiesFields ==
    \A i, j \in 1..Len(event_log) :
        (FourFields(event_log[i]) = FourFields(event_log[j]))
            <=> (event_log[i].event_id = event_log[j].event_id)

\* C17: two events without attachment that differ in item_id and in title
\* have the same event_id.
C17_DifferentFieldsSameId ==
    /\ Len(event_log) = 2
    /\ event_log[1].attachment = None /\ event_log[2].attachment = None
    /\ event_log[1].item_id # event_log[2].item_id
    /\ event_log[1].title # event_log[2].title
    /\ event_log[1].event_id = event_log[2].event_id

\* the event ids in the output of the last run, in order
LastIds ==
    IF changes_file = None THEN <<>>
    ELSE [i \in 1..Len(changes_file[1]) |-> changes_file[1][i].event_id]

\* C18: no event id is in the output of two runs or twice in the output of
\* one run, no id that sent_events.json held before a run is in the output
\* of that run, and the ids sent_events.json holds only grow.
C18_NeverEmittedAgain ==
    /\ \A i \in 1..Len(LastIds) : LastIds[i] \notin emitted_before
    /\ \A i, j \in 1..Len(LastIds) : i # j => LastIds[i] # LastIds[j]
    /\ \A i \in 1..Len(LastIds) : LastIds[i] \notin recorded_before
    /\ recorded_before \subseteq sent_events_file.ids

\* the events diff() makes from the item files as they are
EventsOfFiles ==
    events_of_current(by_item_id(current_items[1]),
                      by_item_id(IF last_items = None THEN <<>> ELSE last_items[1]), diffs)

\* C18: a second run on item files that give an event of the first run
\* again: the event is not in the output.
C18_RepeatSuppressed ==
    /\ diffs = 2
    /\ current_items # None
    /\ EventsOfFiles # <<>>
    /\ \A i \in 1..Len(EventsOfFiles) : EventsOfFiles[i].event_id \in emitted_before
    /\ changes_file = Some(<<>>)

(***************************************************************************)
(* Link order and the choice of the next hop, checked under Spec.          *)
(***************************************************************************)
\* the list extract_links_v2 returns for the page the run fetched k-th
LinksOfFetched(k) ==
    extract_links_v2(site[fetched[k]][1].links, fetched[k], source_id, k - 1)

\* the hops the run has chosen so far: the page fetched k-th and the URL the
\* loop went on to from it
Hops ==
    {<<k, fetched[k + 1]>> : k \in 1..(Len(fetched) - 1)}
    \cup (IF dpc = "loop" /\ fetched # <<>> /\ current_url # fetched[Len(fetched)]
          THEN {<<Len(fetched), current_url>>} ELSE {})

\* the positions in links of the links that were unvisited after k fetches
\* and score over -20
Followable(links, k) ==
    {i \in 1..Len(links) :
        /\ links[i].url \notin {fetched[j] : j \in 1..k}
        /\ links[i].score > -20}

\* C21: the list extract_links_v2 returns for a fetched page is in
\* non-increasing score order, and every hop goes to a link of that page
\* that was unvisited and scores over -20, none of the other such links of
\* the page scoring higher; the path step of the page names the hop.
C21_BestUnvisitedLinkFollowed ==
    /\ \A k \in 1..Len(fetched) :
        site[fetched[k]] # None =>
            \A i, j \in 1..Len(LinksOfFetched(k)) :
                i < j => LinksOfFetched(k)[i].score >= LinksOfFetched(k)[j].score
    /\ \A hop \in Hops :
        /\ site[fetched[hop[1]]] # None
        /\ \E i \in Followable(LinksOfFetched(hop[1]), hop[1]) :
            /\ LinksOfFetched(hop[1])[i].url = hop[2]
            /\ \A j \in Followable(LinksOfFetched(hop[1]), hop[1]) :
                LinksOfFetched(hop[1])[j].score <= LinksOfFetched(hop[1])[i].score
        /\ \E n \in DOMAIN result.discovery_path :
            /\ result.discovery_path[n].depth = hop[1] - 1
            /\ result.discovery_path[n].selected_next = Some(hop[2])

\* C21: page A lists the link to B before the higher-scoring link to the
\* PDF, and the run went from A to the PDF.
C21_LaterLinkFollowed ==
    /\ Len(fetched) >= 2
    /\ fetched[1] = "A"
    /\ site["A"] # None
    /\ site["A"][1].links = <<"toB", "toP">>
    /\ fetched[2] = "P"

\* C21: page A links to itself and to a page that scores -20 before it
\* links to B, and the run went from A to B.
C21_VisitedAndLowSkipped ==
    /\ Len(fetched) >= 2
    /\ fetched[1] = "A"
    /\ site["A"] # None
    /\ site["A"][1].links \in {<<"toA", "toB">>, <<"toE", "toB">>}
    /\ fetched[2] = "B"

(***************************************************************************)
(* The discovery path as a record of the run, checked under Spec.          *)
(***************************************************************************)
\* the URLs of the path steps, in order
PathUrls == [n \in DOMAIN result.discovery_path |-> result.discovery_path[n].url]

\* C22: whatever the outcome and the source's mode, the discovery path has
\* one step for each URL the run has visited, in visit order with depths
\* 0, 1, 2, ..., and each HTML step carries the page's classification and
\* its top candidate links.
C22_PathRecordsEveryVisit ==
    /\ PathUrls = fetched
    /\ \A n \in DOMAIN result.discovery_path :
        /\ result.discovery_path[n].depth = n - 1
        /\ result.discovery_path[n].type = "HTML" =>
            /\ result.discovery_path[n].doc_type = Some(site[fetched[n]][1].doc_type)
            /\ result.discovery_path[n].links_found # None
            /\ result.discovery_path[n].top_links = Take(LinksOfFetched(n), top_limit)

\* C22: a run whose fetch of the landing page failed returned fail-fetch
\* with an empty discovery path.
C22_FailedFetchLeavesNoStep ==
    /\ Returned
    /\ result.status = "fail-fetch"
    /\ fetched = <<"A">>
    /\ visited = {"A"}
    /\ result.discovery_path = <<>>

\* C22: the only step of a meeting_list run for its landing page carries
\* neither the page's classification nor its top links, although the page
\* has links.
C22_MeetingListStepBare ==
    /\ Returned
    /\ source_config(source_id).mode = "meeting_list"
    /\ Len(result.discovery_path) = 1
    /\ result.discovery_path[1].type = "HTML"
    /\ result.discovery_path[1].doc_type = None
    /\ result.discovery_path[1].top_links = <<>>
    /\ LinksOfFetched(1) # <<>>

\* C22: within a run a step of the discovery path is never removed or
\* moved, and its url, depth, type and classification never change; the
\* path has at most one step for each fetch.
C22_PathAppendOnly ==
    [][runs' = runs =>
        /\ Len(result'.discovery_path) >= Len(result.discovery_path)
        /\ Len(result'.discovery_path) <= Len(fetched')
        /\ \A n \in DOMAIN result.discovery_path :
            /\ result'.discovery_path[n].url = result.discovery_path[n].url
            /\ result'.discovery_path[n].depth = result.discovery_path[n].depth
            /\ result'.discovery_path[n].type = result.discovery_path[n].type
            /\ result'.discovery_path[n].doc_type = result.discovery_path[n].doc_type]_vars

(***************************************************************************)
(* The cache under bypass and after failed calls, checked under SpecFetch. *)
(***************************************************************************)
\* the step is a fetch call
IsFetchCall == calls' = calls + 1

\* C23: a fetch call on a fetcher with cache bypass leaves every cache
\* entry as it was and creates none, is never served from the cache, and
\* returns content only after a network request; and a fetch call that
\* returns None, bypass or not, leaves the cache as it was.
C23_BypassLeavesCacheAlone ==
    [][IsFetchCall =>
        /\ bypass_cache =>
            /\ cache' = cache
            /\ ~last_call'.metadata.cached
            /\ last_call'.metadata.cache_bypassed
            /\ last_call'.content # None => last_call'.requests # <<>>
        /\ last_call'.content = None => cache' = cache]_vars

\* C23: a bypass fetcher was asked for a URL that has a fresh cache entry:
\* it made a request, returned the content and left the entry as it was.
C23_FreshEntryNotUsed ==
    /\ Called
    /\ last_call.bypass
    /\ last_call.entry # None
    /\ _is_cache_fresh(last_call.entry[1], fresh_hours, last_call.start)
    /\ last_call.content # None
    /\ last_call.requests # <<>>
    /\ cache[last_call.url] = last_call.entry[1]
    /\ last_call.entry[1].cached_at < last_call.requests[1]

(***************************************************************************)
(* The cache-retention sweep of fetcher.py, checked under SpecSweep.       *)
(***************************************************************************)
\* the step is a clean_old_cache call
IsSweep == sweeps' = sweeps + 1

\* the file was last written more than `days` days before time t
OlderThan(file, days, t) == t - file.mtime > days * seconds_per_day

\* C24: a clean_old_cache(max_age_days) call leaves no metadata or content
\* file older than max_age_days, leaves every file that is not older as it
\* was, and leaves every entry with both its files; a step that is no
\* clean_old_cache call removes no file.
C24_SweepRemovesOldOnly ==
    [][/\ IsSweep =>
            /\ \A n \in DOMAIN cache_files' :
                ~OlderThan(cache_files'[n], last_sweep'[1].max_age_days, now')
            /\ \A n \in DOMAIN cache_files :
                ~OlderThan(cache_files[n], last_sweep'[1].max_age_days, now') =>
                    n \in DOMAIN cache_files' /\ cache_files'[n] = cache_files[n]
            /\ \A u \in Urls :
                JsonFile(u) \in DOMAIN cache_files' <=> BinFile(u) \in DOMAIN cache_files'
       /\ ~IsSweep => DOMAIN cache_files \subseteq DOMAIN cache_files']_vars

\* C24: a sweep with max_age_days = 7 met an entry of A older than seven
\* days and a younger entry of B: both files of A are gone and both files
\* of B are as they were.
C24_OldGoneRestKept ==
    /\ last_sweep # None
    /\ last_sweep[1].max_age_days = 7
    /\ {JsonFile("A"), BinFile("A"), JsonFile("B"), BinFile("B")} \subseteq DOMAIN last_sweep[1].before
    /\ OlderThan(last_sweep[1].before[BinFile("A")], 7, last_sweep[1].at)
    /\ ~OlderThan(last_sweep[1].before[JsonFile("B")], 7, last_sweep[1].at)
    /\ DOMAIN cache_files = {JsonFile("B"), BinFile("B")}
    /\ cache_files[BinFile("B")] = last_sweep[1].before[BinFile("B")]

(***************************************************************************)
(* The fingerprint and the set of substantive lines, checked under         *)
(* SpecLines.                                                              *)
(***************************************************************************)
\* the set of the text's lines, lowercased and with white space collapsed,
\* that are longer than 3 characters
SubstantiveLines(text) ==
    {cleaned_line(Split(text, "\n")[i]) : i \in 1..Len(Split(text, "\n"))}
        \ {l \in {cleaned_line(Split(text, "\n")[i]) : i \in 1..Len(Split(text, "\n"))} : Len(l) <= 3}

\* C25: two texts have the same fingerprint exactly when they have the same
\* set of substantive lines; a repeated substantive line and lines of 3
\* characters or fewer make no difference.
C25_FingerprintIffSameLines ==
    parsed # None =>
        ((parsed[1].variant.fingerprint = parsed[1].original.fingerprint)
            <=> (SubstantiveLines(variant_text) = SubstantiveLines(original_text)))

\* C25: the variant is the original with one of its substantive lines
\* repeated at the end: the set of substantive lines is the same, the
\* fingerprint is not.
C25_RepeatedLineChanges ==
    /\ parsed # None
    /\ edits = 1
    /\ \E i \in 1..Len(Split(original_text, "\n")) :
            /\ Len(cleaned_line(Split(original_text, "\n")[i])) > 3
            /\ variant_text = WithLine(original_text, Split(original_text, "\n")[i])
    /\ SubstantiveLines(variant_text) = SubstantiveLines(original_text)
    /\ parsed[1].variant.fingerprint # parsed[1].original.fingerprint

\* C25: the original is empty and the variant is one short line: neither
\* has a substantive line, only the variant has a fingerprint.
C25_ShortLineAfterEmpty ==
    /\ parsed # None
    /\ original_text = <<>>
    /\ SubstantiveLines(variant_text) = {}
    /\ parsed[1].original.fingerprint = <<>>
    /\ parsed[1].variant.fingerprint = hexdigest(<<>>, fingerprint_length)

(***************************************************************************)
(* Successive changes of one item, checked under SpecWorker.               *)
(***************************************************************************)
\* the pairs of an item of last_items.json and the item of
\* current_items.json with the same item_id, as a run read them
KeptItems(input) ==
    {pair \in {<<input.last[i], input.current[j]>> :
                    i \in 1..Len(input.last), j \in 1..Len(input.current)} :
        pair[1].item_id = pair[2].item_id}

\* the meeting time of the item differs from the last one and is not null
TimeMoved(pair) ==
    pair[2].meeting_datetime # pair[1].meeting_datetime /\ pair[2].meeting_datetime # None

\* the urls whose attachment has another sha256 than the last time
Rehashed(pair) ==
    {url \in {get_url(pair[1].attachments[i]) : i \in 1..Len(pair[1].attachments)} :
        \E i \in 1..Len(pair[1].attachments), j \in 1..Len(pair[2].attachments) :
            /\ get_url(pair[1].attachments[i]) = url
            /\ get_url(pair[2].attachments[j]) = url
            /\ get_sha256(pair[1].attachments[i]) # get_sha256(pair[2].attachments[j])}

\* the output holds an event of the type for the item (and attachment url)
Reports(changes, change_type, item_id, url) ==
    \E n \in 1..Len(changes) :
        /\ changes[n].change_type = change_type
        /\ changes[n].item_id = item_id
        /\ url # None => AttachmentUrl(changes[n]) = url

\* the last run of diff() read item files that no run before it had read
\* in the same state
FreshInput ==
    /\ diff_inputs # <<>>
    /\ \A n \in 1..(Len(diff_inputs) - 1) : diff_inputs[n] # diff_inputs[Len(diff_inputs)]

\* C26: a run of diff() on item files not compared before reports a
\* meeting_time_changed event for each item of both files whose meeting
\* time has changed to a non-null value, and an attachment_changed event
\* for each attachment url of such an item whose sha256 has changed, also
\* when the same item or attachment has changed before.
C26_EveryChangeReported ==
    FreshInput =>
        \A pair \in KeptItems(diff_inputs[Len(diff_inputs)]) :
            /\ TimeMoved(pair) =>
                Reports(changes_file[1], MEETING_TIME_CHANGED, pair[2].item_id, None)
            /\ \A url \in Rehashed(pair) :
                Reports(changes_file[1], ATTACHMENT_CHANGED, pair[2].item_id, Some(url))

\* the second run compared the items the first run had read as current
\* with newer ones
SuccessiveRuns ==
    /\ Len(diff_inputs) = 2
    /\ diff_inputs[2].last = diff_inputs[1].current
    /\ diff_inputs[2].current # diff_inputs[1].current

\* C26: the first run reported a change of the item's meeting time, the
\* item's time changed again, and the output of the second run has no
\* meeting_time_changed event.
C26_SecondTimeChangeSilent ==
    /\ SuccessiveRuns
    /\ \E first \in KeptItems(diff_inputs[1]), second \in KeptItems(diff_inputs[2]) :
        /\ first[2].item_id = second[2].item_id
        /\ TimeMoved(first)
        /\ TimeMoved(second)
        /\ _generate_event_id(MEETING_TIME_CHANGED, first[2].item_id, first[2].title, None)
                \in emitted_before
        /\ ~Reports(changes_file[1], MEETING_TIME_CHANGED, second[2].item_id, None)

\* C26: the first run reported a change of the attachment's sha256, the
\* sha256 changed again, and the output of the second run has no
\* attachment_changed event.
C26_SecondHashChangeSilent ==
    /\ SuccessiveRuns
    /\ \E first \in KeptItems(diff_inputs[1]), second \in KeptItems(diff_inputs[2]) :
        /\ first[2].item_id = second[2].item_id
        /\ Rehashed(first) # {}
        /\ Rehashed(second) = Rehashed(first)
        /\ _generate_event_id(ATTACHMENT_CHANGED, first[2].item_id, first[2].title,
                              Some(first[2].attachments[1])) \in emitted_before
        /\ \A url \in Rehashed(second) :
            ~Reports(changes_file[1], ATTACHMENT_CHANGED, second[2].item_id, Some(url))

(***************************************************************************)
(* C27                                                                     *)
(***************************************************************************)
\* the requests the threads have issued, as <<thread, index>> pairs
ThreadRequests == {<<w, i>> \in Threads \X (1..MaxThreadCalls) : i <= Len(thread_reqs[w])}

\* a thread is between its check of last_fetch and its update of it
InCheckAndUpdate(w) == thread_pc[w] \in {"sleep", "store"}

\* C27: when two threads call fetch on one shared fetcher for URLs of one
\* domain, no thread checks the domain's last-fetch clock while another is
\* between its check and its update, and any two requests of different
\* threads to the domain are at least min_delay apart.
C27_ConcurrentRequestsSpaced ==
    /\ \A w1, w2 \in Threads :
          w1 # w2 => ~(InCheckAndUpdate(w1) /\ InCheckAndUpdate(w2))
    /\ \A p, q \in ThreadRequests :
          p[1] # q[1] =>
              \/ thread_reqs[p[1]][p[2]] - thread_reqs[q[1]][q[2]] >= min_delay
              \/ thread_reqs[q[1]][q[2]] - thread_reqs[p[1]][p[2]] >= min_delay

\* both threads have passed the check while the domain had no entry, and
\* neither has stored its time yet
C27_BothPassedCheck ==
    /\ last_fetch = EmptyMap
    /\ \A w \in Threads : thread_pc[w] = "store"

\* the first requests of the two threads went out in the same second, and
\* neither thread has slept
C27_SimultaneousRequests ==
    /\ \A w \in Threads : Len(thread_reqs[w]) = 1 /\ thread_wake[w] = 0
    /\ thread_reqs["t1"][1] = thread_reqs["t2"][1]


(***************************************************************************)
(* C28                                                                     *)
(***************************************************************************)
\* the second run of a session has returned: both runs were on the same
\* fetcher with the cache enabled, every request of the session was answered
\* with the page, and the second run ended within an hour of the start of
\* the first
SecondRunInWindow ==
    /\ Returned
    /\ runs = 2
    /\ Len(returned) = 1
    /\ ~bypass_cache
    /\ faults = 0
    /\ now < fresh_hours * 3600

\* C28: a second run on an unchanged site with the same fetcher, the cache
\* enabled and inside the freshness window returns the status and the
\* final_url of the first run, and a run whose last page was served from the
\* cache does not end as a fetch failure.
C28_SecondRunSameResult ==
    /\ SecondRunInWindow =>
          /\ result.status = returned[1].status
          /\ result.final_url = returned[1].final_url
    /\ (Returned /\ fetched # <<>> /\ Called /\ CacheServed) =>
          result.status # "fail-fetch"

\* the first run found the agenda PDF; the second, served from the cache,
\* returns fail-fetch without a final_url
C28_CachedPageFailsFetch ==
    /\ SecondRunInWindow
    /\ returned[1].status = "success-agenda"
    /\ returned[1].final_url # None
    /\ CacheServed
    /\ fetched = <<landing_url>>
    /\ result.status = "fail-fetch"
    /\ result.final_url = None


(***************************************************************************)
(* C29                                                                     *)
(***************************************************************************)
\* in every state of a run: no URL was fetched twice, visited is the set of
\* the URLs fetch was called for, at most max_depth + 1 fetches were made and
\* depth_reached is at most max_depth
RunWithinBudget ==
    /\ \A i, j \in 1..Len(fetched) : i # j => fetched[i] # fetched[j]
    /\ visited = {fetched[i] : i \in 1..Len(fetched)}
    /\ Len(fetched) <= max_depth + 1
    /\ result.depth_reached <= max_depth
    /\ depth <= max_depth

\* C29: in a discover_agenda_deep run on any site, link cycles included, no
\* URL is fetched more than once, the visited set is the set of URLs a fetch
\* was issued for, there are at most max_depth + 1 fetches, depth_reached
\* never exceeds max_depth, and the run returns.
C29_RunBoundedAndTerminates ==
    /\ []RunWithinBudget
    /\ [](dpc = "loop" => <>(dpc = "done"))

\* a run with depth budget 2 on a cycle (A links to B, B links back to A)
\* has returned after fetching A and B once each
C29_CycleVisitedOnce ==
    /\ Returned
    /\ max_depth = 2
    /\ fetched = <<"A", "B">>
    /\ site["A"][1].links = <<"toB">>
    /\ site["B"][1].links = <<"toA">>


(***************************************************************************)
(* C30                                                                     *)
(***************************************************************************)
\* the call sent requests, and the last of them was answered with the page
AnsweredOk ==
    /\ last_call.requests # <<>>
    /\ last_call.answers[Len(last_call.answers)] = OkResponse

\* C30: whenever fetch returns content, the error of the returned metadata
\* is None and, when the content came from a response, the status_code is
\* that of the response, also after a failed earlier attempt within the call.
C30_ContentWithoutError ==
    (Called /\ last_call.content # None) =>
        /\ last_call.metadata.error = None
        /\ AnsweredOk => last_call.metadata.status_code = Some(OkResponse.code)

\* a call whose first attempt met a network exception and whose second was
\* answered 200 returned the content together with the exception's text
C30_ContentAndError ==
    /\ Called
    /\ last_call.answers = <<NetworkException, OkResponse>>
    /\ last_call.content # None
    /\ last_call.metadata.status_code = Some(OkResponse.code)
    /\ last_call.metadata.error = Some(ExceptionText)

\* a call whose first attempt was answered 503 and whose second was answered
\* 200 returned the content with status_code 200 and no error
C30_RecoveredFrom503Clean ==
    /\ Called
    /\ last_call.answers = <<HttpError(503), OkResponse>>
    /\ last_call.content # None
    /\ last_call.metadata.status_code = Some(OkResponse.code)
    /\ last_call.metadata.error = None

====
